---- MODULE Spec2Model ----
(***************************************************************************)
(* Graduation workflow of the alumni backend: the User table with its     *)
(* academic fields, the ActivityLog and Notification tables, and the      *)
(* admin handlers of app/admin/routes.py that read and write them.        *)
(*                                                                         *)
(* A request is one step.  A handler is an operator from the stored       *)
(* tables (a record db) and the request to the tables after the request   *)
(* and the reply; the action of the handler stores the result.  A commit  *)
(* of the session may fail: the argument fault of a handler tells which   *)
(* of its commits raises (0: none).                                       *)
(***************************************************************************)
EXTENDS Integers, Sequences, FiniteSets, TLC

VARIABLES
    users,          \* the users table: id -> row
    activity_logs,  \* the activity_logs table, in insertion order
    notifications,  \* the notifications table, in insertion order
    teacher_students, \* the teacher_students table, in insertion order
    faculties,      \* the faculties table: id -> row
    directions,     \* the directions table: id -> row
    drawn,          \* number of tokens secrets.token_urlsafe has returned
    blacklisted_tokens, \* the jti set of auth/routes.py, in the memory of the process
    jwts,           \* the JSON web tokens issued so far
    utcnow,         \* the hour datetime.utcnow() returns
    in_flight,      \* the requests that run concurrently: where each one is
    today,          \* the date datetime.now() returns, <<year, month, day>>
    response,       \* the last request and the reply to it
    returned,       \* the last value a User method returned to a direct call
    writes          \* number of requests that changed a table or failed a commit

\* the reference tables
dictionaries == <<faculties, directions>>

\* what the token checks of the auth routes read
sessions == <<blacklisted_tokens, jwts, utcnow>>

vars == <<users, activity_logs, notifications, teacher_students, dictionaries, drawn,
          sessions, in_flight, today, response, returned, writes>>

----------------------------------------------------------------------------
(* Bounds of the model *)

\* requests that change a table or fail a commit, in one behaviour
MaxWrites == 2

----------------------------------------------------------------------------
(* Values *)

\* a nullable string column that is not set
None == "none"
\* a nullable Integer column (admission_year, graduation_year) that is not set
NoYear == 0
\* a key the request body does not hold
Absent == "absent"

Roles == {"admin", "teacher", "student"}
DegreeLevels == {"bachelor", "master", "phd", "dsc"}
StudentTypes == {"regular", "free_applicant", "external"}
StudentStatuses == {"current", "graduate"}

\* month of the graduation date: datetime(graduation_year, 6, 1)
GraduationMonth == 6
GraduationDay == 1

\* default of error_response's status_code parameter
DefaultErrorStatus == 400

----------------------------------------------------------------------------
(* Dates *)

\* the dates at which requests are made, in order
Calendar == << <<2025, 5, 31>>, <<2025, 6, 1>>, <<2026, 1, 15>> >>

\* datetime comparison a >= b on <<year, month, day>>
DateGE(a, b) ==
    \/ a[1] > b[1]
    \/ a[1] = b[1] /\ a[2] > b[2]
    \/ a[1] = b[1] /\ a[2] = b[2] /\ a[3] >= b[3]

----------------------------------------------------------------------------
(* The User methods of the graduation workflow *)

\* eligibility by the year of the date alone
is_eligible_by_year(student, now) ==
    student.student_status # "graduate" /\ student.graduation_year # NoYear
    /\ now[1] >= student.graduation_year

\* User.is_eligible_for_graduation(), evaluated at the date now
is_eligible_for_graduation(student, now) ==
    IF student.student_status = "graduate" THEN FALSE
    ELSE IF student.graduation_year = NoYear THEN FALSE
    ELSE DateGE(now, <<student.graduation_year, GraduationMonth, GraduationDay>>)

\* a validation that stops at the duration rule
validate_duration_only(student) ==
    LET duration == student.graduation_year - student.admission_year
    IN  IF student.degree_level = "bachelor" /\ duration \notin {4, 5}
            THEN <<"Bachelor degree duration should be 4-5 years">>
        ELSE IF student.degree_level = "master" /\ duration \notin {2, 3}
            THEN <<"Master degree duration should be 2-3 years">>
        ELSE IF student.degree_level = "phd" /\ duration \notin {3, 4, 5}
            THEN <<"PhD duration should be 3-5 years">>
        ELSE <<>>

\* User.validate_graduation_data(): the list of validation errors
validate_graduation_data(student) ==
    LET duration == student.graduation_year - student.admission_year
        yearsSet == student.admission_year # NoYear /\ student.graduation_year # NoYear
        durationErrors ==
            IF ~yearsSet THEN <<>>
            ELSE IF student.degree_level = "bachelor" /\ duration \notin {4, 5}
                THEN <<"Bachelor degree duration should be 4-5 years">>
            ELSE IF student.degree_level = "master" /\ duration \notin {2, 3}
                THEN <<"Master degree duration should be 2-3 years">>
            ELSE IF student.degree_level = "phd" /\ duration \notin {3, 4, 5}
                THEN <<"PhD duration should be 3-5 years">>
            ELSE <<>>
        typeErrors ==
            IF student.degree_level \in {"bachelor", "master"}
               /\ student.student_type # "regular"
                THEN <<"Bachelor and Master students must be regular type">>
            ELSE <<>>
    IN  durationErrors \o typeErrors

----------------------------------------------------------------------------
(* Replies *)

\* error_response(code, message, details=None, status_code=400)
error_response(code, details, status_code) ==
    [success |-> FALSE, code |-> code, details |-> details, status |-> status_code]

\* success_response(data, message, status_code=200)
success_response(status_code) ==
    [success |-> TRUE, code |-> "OK", details |-> <<>>, status |-> status_code]

\* the reply of app.errorhandler(500) to an exception no handler catches
internal_error ==
    [success |-> FALSE, code |-> "INTERNAL_ERROR", details |-> <<>>, status |-> 500]

\* what a handler returns: the tables after the request, the reply, and
\* whether a commit of the request raised
Result(d, reply, faulted) == [db |-> d, reply |-> reply, faulted |-> faulted]

\* the tables as the handlers read them
db == [users |-> users, activity_logs |-> activity_logs,
       notifications |-> notifications, teacher_students |-> teacher_students,
       faculties |-> faculties, directions |-> directions, drawn |-> drawn]

\* a table without rows
Empty == [id \in {} |-> id]

\* no faculty and no direction is stored
NoDictionaries == faculties = Empty /\ directions = Empty

\* no token has been issued
NoSessions == drawn = 0 /\ blacklisted_tokens = {} /\ jwts = {} /\ utcnow = 0

ActivityLog(user_id, action, target_id) ==
    [user_id |-> user_id, action |-> action, target_id |-> target_id]

\* the value of a DateTime column that is NULL
NoDate == <<0, 0, 0>>

\* a new notifications row; every call passes its message next to its title,
\* and one token names the two texts
Notification(user_id, title, type) ==
    [user_id |-> user_id, title |-> title, message |-> title, type |-> type,
     read |-> FALSE, read_at |-> NoDate]

\* User.query.filter_by(id=student_id, role='student').first() finds a row
StudentFound(d, student_id) ==
    student_id \in DOMAIN d.users /\ d.users[student_id].role = "student"

\* a decorator that lets every caller through
role_required_unchecked(d, current_user, roles, inner) == inner

\* the decorator role_required(*roles) around the handler result inner
role_required(d, current_user, roles, inner) ==
    IF current_user \notin DOMAIN d.users
        THEN Result(d, error_response("USER_NOT_FOUND", <<>>, 404), FALSE)
    ELSE IF d.users[current_user].is_blocked
        THEN Result(d, error_response("USER_BLOCKED", <<>>, 403), FALSE)
    ELSE IF d.users[current_user].role \notin roles
        THEN Result(d, error_response("INSUFFICIENT_PERMISSIONS", <<>>, 403), FALSE)
    ELSE inner

----------------------------------------------------------------------------
(* Graduation handlers *)

\* try: commit; add the log and the notification; commit; return success
\* except: rollback; return failed.  d: the tables before the request, d1:
\* with the changed student row, d2: with the log and the notification too
TwoCommits(d, d1, d2, fault, failed) ==
    IF fault = 1 THEN Result(d, failed, TRUE)
    ELSE IF fault = 2 THEN Result(d1, failed, TRUE)
    ELSE Result(d2, success_response(200), FALSE)

\* the checks of a confirm_graduation that does not ask for eligibility
ConfirmRejectionUnguarded(d, now, student_id) ==
    IF ~StudentFound(d, student_id) THEN "STUDENT_NOT_FOUND"
    ELSE IF d.users[student_id].student_status = "graduate" THEN "ALREADY_GRADUATED"
    ELSE IF validate_graduation_data(d.users[student_id]) # <<>> THEN "VALIDATION_ERROR"
    ELSE "OK"

\* the checks of confirm_graduation: the code of the error, or "OK"
ConfirmRejection(d, now, student_id) ==
    IF ~StudentFound(d, student_id) THEN "STUDENT_NOT_FOUND"
    ELSE IF ~is_eligible_for_graduation(d.users[student_id], now) THEN "NOT_ELIGIBLE"
    ELSE IF d.users[student_id].student_status = "graduate" THEN "ALREADY_GRADUATED"
    ELSE IF validate_graduation_data(d.users[student_id]) # <<>> THEN "VALIDATION_ERROR"
    ELSE "OK"

\* the rows of a confirm_graduation that notifies nobody
ConfirmRecordsLogOnly(d1, current_user, student_id) ==
    [d1 EXCEPT
       !.activity_logs = Append(@,
           ActivityLog(current_user, "STUDENT_GRADUATED", student_id))]

\* the rows confirm_graduation adds after its first commit
ConfirmRecords(d1, current_user, student_id) ==
    [d1 EXCEPT
       !.activity_logs = Append(@,
           ActivityLog(current_user, "STUDENT_GRADUATED", student_id)),
       !.notifications = Append(@,
           Notification(student_id, "graduation confirmed", "success"))]

\* POST /students/<student_id>/confirm-graduation
confirm_graduation(d, now, current_user, student_id, fault) ==
    LET rejection == ConfirmRejection(d, now, student_id)
        d1 == [d EXCEPT !.users[student_id].student_status = "graduate"]
    IN  IF rejection = "STUDENT_NOT_FOUND"
            THEN Result(d, error_response(rejection, <<"404">>, DefaultErrorStatus), FALSE)
        ELSE IF rejection # "OK"
            THEN Result(d, error_response(rejection, <<"400">>, DefaultErrorStatus), FALSE)
        ELSE TwoCommits(d, d1, ConfirmRecords(d1, current_user, student_id), fault,
                        error_response("DATABASE_ERROR", <<"500">>, DefaultErrorStatus))

\* the student row after a revert that forgets the graduation year
RevertedWithoutYear(student) ==
    [student EXCEPT !.student_status = "current", !.graduation_year = NoYear]

\* the student row after revert_graduation wrote it
Reverted(student) == [student EXCEPT !.student_status = "current"]

\* a revert_graduation that validates the graduation data first
revert_graduation_validated(d, current_user, student_id, fault) ==
    IF ~StudentFound(d, student_id)
        THEN Result(d, error_response("STUDENT_NOT_FOUND", <<"404">>, DefaultErrorStatus), FALSE)
    ELSE IF d.users[student_id].student_status # "graduate"
        THEN Result(d, error_response("NOT_GRADUATED", <<"400">>, DefaultErrorStatus), FALSE)
    ELSE IF validate_graduation_data(d.users[student_id]) # <<>>
        THEN Result(d, error_response("VALIDATION_ERROR", <<"400">>, DefaultErrorStatus), FALSE)
    ELSE
        LET d1 == [d EXCEPT !.users[student_id] = Reverted(@)]
            d2 == [d1 EXCEPT
                     !.activity_logs = Append(@,
                         ActivityLog(current_user, "STUDENT_GRADUATION_REVERTED", student_id)),
                     !.notifications = Append(@,
                         Notification(student_id, "graduation status changed", "info"))]
        IN  TwoCommits(d, d1, d2, fault,
                       error_response("DATABASE_ERROR", <<"500">>, DefaultErrorStatus))

\* POST /students/<student_id>/revert-graduation
revert_graduation(d, current_user, student_id, fault) ==
    IF ~StudentFound(d, student_id)
        THEN Result(d, error_response("STUDENT_NOT_FOUND", <<"404">>, DefaultErrorStatus), FALSE)
    ELSE IF d.users[student_id].student_status # "graduate"
        THEN Result(d, error_response("NOT_GRADUATED", <<"400">>, DefaultErrorStatus), FALSE)
    ELSE
        LET d1 == [d EXCEPT !.users[student_id] = Reverted(@)]
            d2 == [d1 EXCEPT
                     !.activity_logs = Append(@,
                         ActivityLog(current_user, "STUDENT_GRADUATION_REVERTED", student_id)),
                     !.notifications = Append(@,
                         Notification(student_id, "graduation status changed", "info"))]
        IN  TwoCommits(d, d1, d2, fault,
                       error_response("DATABASE_ERROR", <<"500">>, DefaultErrorStatus))

\* absent integer key of a request body
AbsentYear == -1

\* data[key] when the body holds the key, else the column's value
Given(value, column) == IF value = Absent THEN column ELSE value
GivenYear(value, column) == IF value = AbsentYear THEN column ELSE value

\* the decorator validate_json_data(required_fields): the handler result inner
\* when no required field is missing, null or empty
validate_json_data(d, missing, inner) ==
    IF missing # <<>>
        THEN Result(d, error_response("VALIDATION_ERROR", missing, 422), FALSE)
    ELSE inner

\* the required fields of PUT graduation-info that the body data lacks
GraduationInfoMissing(data) ==
    (IF data.admissionYear \in {AbsentYear, NoYear} THEN <<"admissionYear">> ELSE <<>>)
    \o (IF data.graduationYear \in {AbsentYear, NoYear} THEN <<"graduationYear">> ELSE <<>>)
    \o (IF data.degreeLevel \in {Absent, None} THEN <<"degreeLevel">> ELSE <<>>)

\* the checks of an update_graduation_info that lets graduates through
GraduationInfoRejectionUnguarded(d, student_id) ==
    IF ~StudentFound(d, student_id) THEN "STUDENT_NOT_FOUND" ELSE "OK"

\* the checks of update_graduation_info before it writes: the code of the
\* error, or "OK"
GraduationInfoRejection(d, student_id) ==
    IF ~StudentFound(d, student_id) THEN "STUDENT_NOT_FOUND"
    ELSE IF d.users[student_id].student_status = "graduate" THEN "STUDENT_GRADUATED"
    ELSE "OK"

\* the student row after update_graduation_info set the fields of the body
WithGraduationInfo(student, data) ==
    [student EXCEPT
        !.admission_year = data.admissionYear,
        !.graduation_year = data.graduationYear,
        !.degree_level = data.degreeLevel,
        !.student_type =
            IF data.studentType # Absent THEN data.studentType
            ELSE IF data.degreeLevel \in {"bachelor", "master"} THEN "regular"
            ELSE @,
        !.faculty = Given(data.faculty, @),
        !.direction = Given(data.direction, @)]

\* an update_graduation_info that keeps the changed row when validation fails
ValidatedCommitKeepingRow(d, d1, d2, errors, fault) ==
    IF errors # <<>>
        THEN Result(d1, error_response("VALIDATION_ERROR", <<"400">>, DefaultErrorStatus),
                    FALSE)
    ELSE TwoCommits(d, d1, d2, fault,
                    error_response("DATABASE_ERROR", <<"500">>, DefaultErrorStatus))

\* update_graduation_info from the validation of the changed row on.  With
\* validation errors it returns without a commit, and the session with the
\* changed row is dropped at the end of the request
ValidatedCommit(d, d1, d2, errors, fault) ==
    IF errors # <<>>
        THEN Result(d, error_response("VALIDATION_ERROR", <<"400">>, DefaultErrorStatus),
                    FALSE)
    ELSE TwoCommits(d, d1, d2, fault,
                    error_response("DATABASE_ERROR", <<"500">>, DefaultErrorStatus))

\* PUT /students/<student_id>/graduation-info
update_graduation_info(d, current_user, student_id, data, fault) ==
    LET rejection == GraduationInfoRejection(d, student_id)
        student == WithGraduationInfo(d.users[student_id], data)
        d1 == [d EXCEPT !.users[student_id] = student]
        d2 == [d1 EXCEPT
                 !.activity_logs = Append(@,
                     ActivityLog(current_user, "STUDENT_GRADUATION_INFO_UPDATED",
                                 student_id)),
                 !.notifications = Append(@,
                     Notification(student_id, "study information updated", "info"))]
    IN  IF rejection = "STUDENT_NOT_FOUND"
            THEN Result(d, error_response(rejection, <<"404">>, DefaultErrorStatus), FALSE)
        ELSE IF rejection # "OK"
            THEN Result(d, error_response(rejection, <<"400">>, DefaultErrorStatus), FALSE)
        ELSE ValidatedCommit(d, d1, d2, validate_graduation_data(student), fault)

----------------------------------------------------------------------------
(* Student management handlers *)

\* the value of password_reset_token and of password_reset_expires that is NULL
NoToken == 0
NoExpiry == 0

\* column defaults of a new users row
NewUser ==
    [role |-> "student", email |-> None, phone |-> None, student_id |-> None,
     faculty |-> None, direction |-> None,
     admission_year |-> NoYear, graduation_year |-> NoYear,
     degree_level |-> None, student_type |-> "regular",
     student_status |-> "current", is_verified |-> FALSE, is_blocked |-> FALSE,
     password_hash |-> "pw0", password_reset_token |-> NoToken,
     password_reset_expires |-> NoExpiry]

\* the tokens the primary key default draws, in the order it draws them
IdPool == <<"s2", "s3", "s4", "s5", "s6", "s7">>

\* the primary key default: a token no row has yet
NewId(d) ==
    IdPool[CHOOSE i \in 1..Len(IdPool) :
               /\ IdPool[i] \notin DOMAIN d.users
               /\ \A j \in 1..(i - 1) : IdPool[j] \in DOMAIN d.users]

\* User.query.filter_by(<column>=value).first() finds a row
Existing(d, column, value) ==
    \E id \in DOMAIN d.users : d.users[id][column] = value

\* a users table that declares no unique constraint: no commit is refused
UniqueUnenforced(table) == FALSE

\* the unique constraints of users.email, users.phone and users.student_id
\* are violated in table: a commit of it raises IntegrityError
UniqueViolated(table) ==
    \E a, b \in DOMAIN table :
        /\ a # b
        /\ \/ table[a].email = table[b].email
           \/ table[a].phone # None /\ table[a].phone = table[b].phone
           \/ table[a].student_id # None /\ table[a].student_id = table[b].student_id

\* the errors create_admin_student collects for the body data
CreateStudentErrors(d, data) ==
    LET student_type == Given(data.studentType, "regular")
    IN  (IF data.degreeLevel \notin {"bachelor", "master", "phd", "dsc"}
            THEN <<"degreeLevel">> ELSE <<>>)
        \o (IF data.degreeLevel \in {"bachelor", "master"} /\ student_type # "regular"
                THEN <<"studentType">>
            ELSE IF data.degreeLevel \in {"phd", "dsc"}
                    /\ student_type \notin {"regular", "free_applicant", "external"}
                THEN <<"studentType">>
            ELSE <<>>)
        \o (IF Existing(d, "email", data.email) THEN <<"email">> ELSE <<>>)
        \o (IF data.phone \notin {Absent, None} /\ Existing(d, "phone", data.phone)
                THEN <<"phone">> ELSE <<>>)
        \o (IF Existing(d, "student_id", data.studentId) THEN <<"studentId">> ELSE <<>>)

\* POST /students
create_admin_student(d, current_user, data, fault) ==
    LET errors == CreateStudentErrors(d, data)
        id == NewId(d)
        student == [NewUser EXCEPT
            !.email = data.email,
            !.phone = Given(data.phone, None),
            !.student_id = data.studentId,
            !.faculty = Given(data.faculty, None),
            !.direction = Given(data.direction, None),
            !.degree_level = data.degreeLevel,
            !.student_type = Given(data.studentType, "regular"),
            !.admission_year = GivenYear(data.admissionYear, NoYear),
            !.graduation_year = GivenYear(data.graduationYear, NoYear),
            !.is_verified = TRUE]
        d1 == [d EXCEPT !.users = (id :> student) @@ @]
        d2 == [d1 EXCEPT !.activity_logs = Append(@,
                   ActivityLog(current_user, "STUDENT_CREATED", id))]
    IN  IF errors # <<>>
            THEN Result(d, error_response("VALIDATION_ERROR", errors, 422), FALSE)
        ELSE IF fault = 1 THEN Result(d, internal_error, TRUE)
        ELSE IF fault = 2 THEN Result(d1, internal_error, TRUE)
        ELSE Result(d2, success_response(201), FALSE)

\* the errors update_admin_student collects for the body data
UpdateStudentErrors(d, student, data) ==
    (IF data.email # Absent /\ data.email # student.email
        /\ Existing(d, "email", data.email) THEN <<"email">> ELSE <<>>)
    \o (IF data.phone \notin {Absent, None} /\ data.phone # student.phone
           /\ Existing(d, "phone", data.phone) THEN <<"phone">> ELSE <<>>)
    \o (IF data.studentId \notin {Absent, None} /\ data.studentId # student.student_id
           /\ Existing(d, "student_id", data.studentId) THEN <<"studentId">> ELSE <<>>)
    \o (IF data.degreeLevel # Absent
           /\ data.degreeLevel \notin {"bachelor", "master", "phd", "dsc"}
            THEN <<"degreeLevel">> ELSE <<>>)

\* PUT /students/<student_id>
update_admin_student(d, current_user, student_id, data, fault) ==
    IF ~StudentFound(d, student_id)
        THEN Result(d, error_response("STUDENT_NOT_FOUND", <<>>, 404), FALSE)
    ELSE
        LET old == d.users[student_id]
            errors == UpdateStudentErrors(d, old, data)
            student == [old EXCEPT
                !.email = Given(data.email, @),
                !.phone = Given(data.phone, @),
                !.student_id = Given(data.studentId, @),
                !.faculty = Given(data.faculty, @),
                !.direction = Given(data.direction, @),
                !.degree_level = Given(data.degreeLevel, @),
                !.student_type = Given(data.studentType, @),
                !.admission_year = GivenYear(data.admissionYear, @),
                !.graduation_year = GivenYear(data.graduationYear, @)]
            d1 == [d EXCEPT !.users[student_id] = student]
            d2 == [d1 EXCEPT !.activity_logs = Append(@,
                       ActivityLog(current_user, "STUDENT_UPDATED", student_id))]
        IN  IF errors # <<>>
                THEN Result(d, error_response("VALIDATION_ERROR", errors, 422), FALSE)
            ELSE IF student = old THEN Result(d, success_response(200), FALSE)
            ELSE IF fault = 1 THEN Result(d, internal_error, TRUE)
            ELSE IF fault = 2 THEN Result(d1, internal_error, TRUE)
            ELSE Result(d2, success_response(200), FALSE)

\* PATCH /students/<student_id>/verify
verify_admin_student(d, current_user, student_id, fault) ==
    IF ~StudentFound(d, student_id)
        THEN Result(d, error_response("STUDENT_NOT_FOUND", <<>>, 404), FALSE)
    ELSE IF d.users[student_id].is_verified
        THEN Result(d, error_response("ALREADY_VERIFIED", <<>>, 400), FALSE)
    ELSE
        LET d1 == [d EXCEPT !.users[student_id].is_verified = TRUE]
            d2 == [d1 EXCEPT
                     !.notifications = Append(@,
                         Notification(student_id, "account verified", "success")),
                     !.activity_logs = Append(@,
                         ActivityLog(current_user, "STUDENT_VERIFIED", student_id))]
        IN  IF fault = 1 THEN Result(d, internal_error, TRUE)
            ELSE IF fault = 2 THEN Result(d1, internal_error, TRUE)
            ELSE Result(d2, success_response(200), FALSE)

\* PATCH /students/<student_id>/block
block_admin_student(d, current_user, student_id, blocked, fault) ==
    IF ~StudentFound(d, student_id)
        THEN Result(d, error_response("STUDENT_NOT_FOUND", <<>>, 404), FALSE)
    ELSE
        LET d1 == [d EXCEPT !.users[student_id].is_blocked = blocked]
            d2 == [d1 EXCEPT
                     !.notifications = Append(@,
                         IF blocked
                         THEN Notification(student_id, "account blocked", "error")
                         ELSE Notification(student_id, "account unblocked", "success")),
                     !.activity_logs = Append(@,
                         ActivityLog(current_user,
                             IF blocked THEN "STUDENT_BLOCKED" ELSE "STUDENT_UNBLOCKED",
                             student_id))]
        IN  IF fault = 1 THEN Result(d, internal_error, TRUE)
            ELSE IF fault = 2 THEN Result(d1, internal_error, TRUE)
            ELSE Result(d2, success_response(200), FALSE)

----------------------------------------------------------------------------
(* Handlers every user may call *)

\* the errors register collects for the body data
RegisterErrors(d, data) ==
    (IF Existing(d, "email", data.email) THEN <<"email">> ELSE <<>>)
    \o (IF data.phone \notin {Absent, None} /\ Existing(d, "phone", data.phone)
            THEN <<"phone">> ELSE <<>>)
    \o (IF data.studentId \notin {Absent, None}
           /\ Existing(d, "student_id", data.studentId)
            THEN <<"studentId">> ELSE <<>>)

\* POST /auth/register
register(d, data, fault) ==
    LET errors == RegisterErrors(d, data)
        id == NewId(d)
        user == [NewUser EXCEPT
            !.email = data.email,
            !.phone = Given(data.phone, None),
            !.student_id = Given(data.studentId, None),
            !.faculty = data.faculty,
            !.direction = data.direction]
        d1 == [d EXCEPT !.users = (id :> user) @@ @]
        d2 == [d1 EXCEPT !.activity_logs = Append(@,
                   ActivityLog(id, "USER_REGISTERED", None))]
    IN  IF errors # <<>>
            THEN Result(d, error_response("VALIDATION_ERROR", errors, 422), FALSE)
        ELSE IF fault = 1 \/ UniqueViolated(d1.users) THEN Result(d, internal_error, TRUE)
        ELSE IF fault = 2 THEN Result(d1, internal_error, TRUE)
        ELSE Result(d2, success_response(201), FALSE)

\* PUT /profile
update_profile(d, current_user, data, fault) ==
    IF current_user \notin DOMAIN d.users
        THEN Result(d, error_response("USER_NOT_FOUND", <<>>, 404), FALSE)
    ELSE
        LET d1 == [d EXCEPT !.users[current_user] = [@ EXCEPT
                       !.phone = Given(data.phone, @),
                       !.faculty = Given(data.faculty, @),
                       !.direction = Given(data.direction, @)]]
        IN  IF fault = 1 \/ UniqueViolated(d1.users) THEN Result(d, internal_error, TRUE)
            ELSE Result(d1, success_response(200), FALSE)

----------------------------------------------------------------------------
(* Requests *)

\* the admin create_admin.py creates
AdminId == "a1"

\* who sends requests: the admin and a student
Actors == {AdminId, "s1"}

\* the ids in the path of a request: students, a teacher, an id of no row
Targets == {"s1", "s2", "t1"}

\* which commit of a request raises; 0: none
Faults == {0, 1, 2}

\* a body of PUT graduation-info
GraduationInfo(admissionYear, graduationYear, degreeLevel, studentType, faculty, direction) ==
    [admissionYear |-> admissionYear, graduationYear |-> graduationYear,
     degreeLevel |-> degreeLevel, studentType |-> studentType,
     faculty |-> faculty, direction |-> direction]

\* bodies of PUT graduation-info: valid ones, ones with a wrong duration, a
\* wrong student type or both, and one that lacks a required field
GraduationInfoBodies ==
    { GraduationInfo(2022, 2026, "bachelor", Absent, Absent, Absent),
      GraduationInfo(2022, 2025, "phd", "free_applicant", "F2", "D2"),
      GraduationInfo(2022, 2025, "master", Absent, "F2", Absent),
      GraduationInfo(2020, 2027, "bachelor", Absent, "F2", "D2"),
      GraduationInfo(2021, 2025, "bachelor", "free_applicant", Absent, "D2"),
      GraduationInfo(2020, 2026, "master", "external", Absent, Absent),
      GraduationInfo(AbsentYear, 2025, "bachelor", Absent, Absent, Absent) }

\* a body of POST /students
NewStudent(email, studentId, degreeLevel, studentType, admissionYear, graduationYear) ==
    [email |-> email, phone |-> Absent, studentId |-> studentId,
     degreeLevel |-> degreeLevel, studentType |-> studentType,
     admissionYear |-> admissionYear, graduationYear |-> graduationYear,
     faculty |-> "F1", direction |-> "D1"]

\* bodies of POST /students
CreateStudentBodies ==
    { NewStudent("e4", "n2", "bachelor", Absent, 2021, 2025),
      NewStudent("e4", "n2", "bachelor", Absent, 2020, 2027),
      NewStudent("e4", "n2", "dsc", "external", AbsentYear, AbsentYear),
      NewStudent("e4", "n2", "master", "free_applicant", 2023, 2025),
      NewStudent("e3", "n2", "bachelor", Absent, 2021, 2025),
      NewStudent("e4", "n1", "bachelor", Absent, 2021, 2025) }

\* a body of PUT /students/<student_id> that holds no key
EmptyUpdate ==
    [email |-> Absent, phone |-> Absent, studentId |-> Absent, faculty |-> Absent,
     direction |-> Absent, degreeLevel |-> Absent, studentType |-> Absent,
     admissionYear |-> AbsentYear, graduationYear |-> AbsentYear]

\* bodies of PUT /students/<student_id>
UpdateStudentBodies ==
    { EmptyUpdate,
      [EmptyUpdate EXCEPT !.email = "e1"],
      [EmptyUpdate EXCEPT !.degreeLevel = "master"],
      [EmptyUpdate EXCEPT !.studentType = "free_applicant"],
      [EmptyUpdate EXCEPT !.graduationYear = 2027],
      [EmptyUpdate EXCEPT !.faculty = "F2", !.direction = "D2"] }

\* bodies of POST /auth/register
RegisterBodies ==
    [email : {"e3", "e5"}, phone : {Absent}, studentId : {Absent},
     faculty : {"F1"}, direction : {"D1"}]

\* bodies of PUT /profile
ProfileBodies ==
    [phone : {Absent}, faculty : {"F2"}, direction : {"D2"}]

\* role_required lets the request of current_user through to the handler
Admitted(current_user, roles) ==
    /\ current_user \in DOMAIN users
    /\ ~users[current_user].is_blocked
    /\ users[current_user].role \in roles

\* the inputs to try for a request: all of S when the handler runs, and one of
\* them when the decorator answers, whose reply does not depend on them
Inputs(S, current_user, roles) ==
    IF Admitted(current_user, roles) THEN S ELSE {CHOOSE x \in S : TRUE}

\* a request that left the tables as they were has no effect on the requests
\* after it: a behaviour shows its reply and ends with it
Live == response.changed

\* one request of caller is served: the tables and the reply are those of
\* result r
Serve(op, caller, target, r) ==
    LET changed == r.db # db \/ r.faulted
    IN  /\ changed => writes < MaxWrites
        /\ users' = r.db.users
        /\ activity_logs' = r.db.activity_logs
        /\ notifications' = r.db.notifications
        /\ teacher_students' = r.db.teacher_students
        /\ faculties' = r.db.faculties
        /\ directions' = r.db.directions
        /\ drawn' = r.db.drawn
        /\ response' = [op |-> op, caller |-> caller, target |-> target,
                        success |-> r.reply.success,
                        code |-> r.reply.code, details |-> r.reply.details,
                        status |-> r.reply.status, changed |-> changed]
        /\ writes' = IF changed THEN writes + 1 ELSE writes
        /\ UNCHANGED <<today, returned, in_flight, sessions>>

ConfirmGraduation ==
    /\ Live
    /\ \E current_user \in Actors :
       \E student_id \in Inputs(Targets, current_user, {"admin"}) :
         \E fault \in Inputs(Faults, current_user, {"admin"}) :
           Serve("confirm_graduation", current_user, student_id,
                 role_required(db, current_user, {"admin"},
                     confirm_graduation(db, today, current_user, student_id, fault)))

RevertGraduation ==
    /\ Live
    /\ \E current_user \in Actors :
       \E student_id \in Inputs(Targets, current_user, {"admin"}) :
         \E fault \in Inputs(Faults, current_user, {"admin"}) :
           Serve("revert_graduation", current_user, student_id,
                 role_required(db, current_user, {"admin"},
                     revert_graduation(db, current_user, student_id, fault)))

UpdateGraduationInfo ==
    /\ Live
    /\ \E current_user \in Actors :
       \E student_id \in Inputs(Targets, current_user, {"admin"}) :
         \E fault \in Inputs(Faults, current_user, {"admin"}),
            data \in Inputs(GraduationInfoBodies, current_user, {"admin"}) :
           Serve("update_graduation_info", current_user, student_id,
                 role_required(db, current_user, {"admin"},
                     validate_json_data(db, GraduationInfoMissing(data),
                         update_graduation_info(db, current_user, student_id, data,
                                                fault))))

CreateAdminStudent ==
    /\ Live
    /\ \E current_user \in Actors :
         \E data \in Inputs(CreateStudentBodies, current_user, {"admin"}) :
           Serve("create_admin_student", current_user, NewId(db),
                 role_required(db, current_user, {"admin"},
                     create_admin_student(db, current_user, data, 0)))

UpdateAdminStudent ==
    /\ Live
    /\ \E current_user \in Actors :
       \E student_id \in Inputs(Targets, current_user, {"admin"}) :
         \E data \in Inputs(UpdateStudentBodies, current_user, {"admin"}) :
           Serve("update_admin_student", current_user, student_id,
                 role_required(db, current_user, {"admin"},
                     update_admin_student(db, current_user, student_id, data, 0)))

VerifyAdminStudent ==
    /\ Live
    /\ \E current_user \in Actors :
       \E student_id \in Inputs(Targets, current_user, {"admin"}) :
           Serve("verify_admin_student", current_user, student_id,
                 role_required(db, current_user, {"admin"},
                     verify_admin_student(db, current_user, student_id, 0)))

BlockAdminStudent ==
    /\ Live
    /\ \E current_user \in Actors :
       \E student_id \in Inputs(Targets, current_user, {"admin"}) :
         \E blocked \in Inputs(BOOLEAN, current_user, {"admin"}) :
           Serve("block_admin_student", current_user, student_id,
                 role_required(db, current_user, {"admin"},
                     block_admin_student(db, current_user, student_id, blocked, 0)))

Register ==
    /\ Live
    /\ \E data \in RegisterBodies :
           Serve("register", None, NewId(db), register(db, data, 0))

\* a student edits their own profile
UpdateProfile ==
    /\ Live
    /\ \E current_user \in Actors \ {AdminId}, data \in ProfileBodies :
           Serve("update_profile", current_user, current_user,
                 update_profile(db, current_user, data, 0))

\* time passes: the next request is made at the next date of the calendar
Tick ==
    /\ Live
    /\ \E i \in 1..(Len(Calendar) - 1) : today = Calendar[i] /\ today' = Calendar[i + 1]
    /\ UNCHANGED <<users, activity_logs, notifications, teacher_students, in_flight,
                   response, returned, writes,
                   dictionaries, drawn, sessions>>

----------------------------------------------------------------------------
(* The initial tables: the admin of create_admin.py, one teacher and the  *)
(* first student of create_sample_data.py                                  *)

Staff(role, email) ==
    [role |-> role, email |-> email, phone |-> None, student_id |-> None,
     faculty |-> None, direction |-> None,
     admission_year |-> NoYear, graduation_year |-> NoYear,
     degree_level |-> None, student_type |-> "regular",
     student_status |-> "current", is_verified |-> TRUE, is_blocked |-> FALSE,
     password_hash |-> "pw0", password_reset_token |-> NoToken,
     password_reset_expires |-> NoExpiry]

SampleStudent ==
    [role |-> "student", email |-> "e3", phone |-> None, student_id |-> "n1",
     faculty |-> "F1", direction |-> "D1",
     admission_year |-> 2021, graduation_year |-> 2025,
     degree_level |-> "bachelor", student_type |-> "regular",
     student_status |-> "current", is_verified |-> TRUE, is_blocked |-> FALSE,
     password_hash |-> "pw0", password_reset_token |-> NoToken,
     password_reset_expires |-> NoExpiry]

\* no User method has been called directly
NotReturned == [method |-> "none", value |-> <<>>]

NoResponse ==
    [op |-> "none", caller |-> None, target |-> None, success |-> TRUE, code |-> "OK",
     details |-> <<>>, status |-> 200, changed |-> TRUE]

Init ==
    /\ users = ("a1" :> Staff("admin", "e1")) @@ ("t1" :> Staff("teacher", "e2"))
               @@ ("s1" :> SampleStudent)
    /\ activity_logs = <<>>
    /\ notifications = <<>>
    /\ teacher_students = <<>>
    /\ in_flight = <<>>
    /\ NoDictionaries
    /\ NoSessions
    /\ today = Calendar[1]
    /\ response = NoResponse
    /\ returned = NotReturned
    /\ writes = 0

Next ==
    \/ ConfirmGraduation
    \/ RevertGraduation
    \/ UpdateGraduationInfo
    \/ CreateAdminStudent
    \/ UpdateAdminStudent
    \/ VerifyAdminStudent
    \/ BlockAdminStudent
    \/ Register
    \/ UpdateProfile
    \/ Tick

Spec == Init /\ [][Next]_vars

----------------------------------------------------------------------------
(* Direct calls of the User methods, as test_graduation_system.py makes    *)
(* them: on one student row, at one date                                   *)

\* the dates of the calls
ProbeDates ==
    {<<y, m, d>> : y \in 2024..2026, m \in {1, 5, 6, 7, 12}, d \in {1, 2, 15, 30}}
    \cup {<<y, 5, 31>> : y \in 2024..2026}

\* the student rows of the calls
ProbeStudents ==
    {[SampleStudent EXCEPT !.student_status = status, !.admission_year = a,
                           !.graduation_year = g, !.degree_level = degree,
                           !.student_type = type] :
        status \in StudentStatuses, a \in 2019..2023, g \in 2024..2026,
        degree \in DegreeLevels, type \in StudentTypes}

InitMethods ==
    /\ \E student \in ProbeStudents :
         users = ("a1" :> Staff("admin", "e1")) @@ ("s1" :> student)
    /\ today \in ProbeDates
    /\ activity_logs = <<>>
    /\ notifications = <<>>
    /\ teacher_students = <<>>
    /\ in_flight = <<>>
    /\ NoDictionaries
    /\ NoSessions
    /\ response = NoResponse
    /\ returned = NotReturned
    /\ writes = 0

CallIsEligible ==
    /\ returned' = [method |-> "is_eligible_for_graduation",
                    value |-> is_eligible_for_graduation(users["s1"], today)]
    /\ UNCHANGED <<users, activity_logs, notifications, teacher_students, in_flight,
                   today, response, writes,
                   dictionaries, drawn, sessions>>

CallValidate ==
    /\ returned' = [method |-> "validate_graduation_data",
                    value |-> validate_graduation_data(users["s1"])]
    /\ UNCHANGED <<users, activity_logs, notifications, teacher_students, in_flight,
                   today, response, writes,
                   dictionaries, drawn, sessions>>

NextMethods ==
    \/ CallIsEligible
    \/ CallValidate

SpecMethods == InitMethods /\ [][NextMethods]_vars

----------------------------------------------------------------------------
(* Properties.  The date test and the two rules of the graduation data   *)
(* are written here a second time, from the wording of the requirements,   *)
(* and not in terms of the operators of the handlers above                 *)

\* the days from a fixed day to date, in a calendar of 31-day months
DayNumber(date) == date[1] * 372 + date[2] * 31 + date[3]

\* date is June 1 of year, or later
OnOrAfterJuneFirst(date, year) == DayNumber(date) >= DayNumber(<<year, 6, 1>>)

\* the degree-duration rule
DurationAllowed(degree_level, years) ==
    CASE degree_level = "bachelor" -> 4 <= years /\ years <= 5
      [] degree_level = "master" -> 2 <= years /\ years <= 3
      [] degree_level = "phd" -> 3 <= years /\ years <= 5
      [] OTHER -> TRUE

\* the student-type rule
TypeAllowed(degree_level, student_type) ==
    degree_level \in {"bachelor", "master"} => student_type = "regular"

\* the student rows
Students == {id \in DOMAIN users : users[id].role = "student"}

\* the academic fields of a student row
Academic(student) ==
    <<student.admission_year, student.graduation_year, student.degree_level,
      student.student_type, student.faculty, student.direction>>

\* C1: every student_status is 'current' or 'graduate', and a student_status
\* changes only in a successful confirm_graduation of that student, from
\* 'current' to 'graduate', or in a successful revert_graduation of it, from
\* 'graduate' to 'current'.
C1_StatusChangesOnlyBySuccessfulConfirmOrRevert ==
    [][/\ \A id \in DOMAIN users' : users'[id].student_status \in StudentStatuses
       /\ \A id \in DOMAIN users \cap DOMAIN users' :
            users'[id].student_status # users[id].student_status =>
                /\ response'.success
                /\ response'.target = id
                /\ \/ /\ response'.op = "confirm_graduation"
                      /\ users[id].student_status = "current"
                      /\ users'[id].student_status = "graduate"
                   \/ /\ response'.op = "revert_graduation"
                      /\ users[id].student_status = "graduate"
                      /\ users'[id].student_status = "current"]_vars

\* C2: a step of confirm_graduation that takes a student from 'current' to
\* 'graduate' starts with the target a student row, the date on or after
\* June 1 of its graduation_year, and validate_graduation_data empty: both
\* rules hold of the row.
C2_ConfirmOnlyWhenEligibleAndValid ==
    [][\A id \in DOMAIN users \cap DOMAIN users' :
         (/\ users[id].student_status = "current"
          /\ users'[id].student_status = "graduate") =>
            /\ response'.op = "confirm_graduation"
            /\ response'.target = id
            /\ users[id].role = "student"
            /\ users[id].graduation_year # NoYear
            /\ OnOrAfterJuneFirst(today, users[id].graduation_year)
            /\ validate_graduation_data(users[id]) = <<>>
            /\ TypeAllowed(users[id].degree_level, users[id].student_type)
            /\ users[id].admission_year # NoYear =>
                 DurationAllowed(users[id].degree_level,
                                 users[id].graduation_year - users[id].admission_year)]_vars

\* a confirm_graduation has made a student a graduate
C2_Witness ==
    /\ response.op = "confirm_graduation"
    /\ response.success
    /\ response.target \in DOMAIN users
    /\ users[response.target].student_status = "graduate"

\* C3: confirm_graduation of a student that is already 'graduate' answers
\* ALREADY_GRADUATED and leaves the users, activity_logs and notifications
\* tables as they were.
C3_ConfirmOfGraduateAnswersAlreadyGraduated ==
    \A id \in Students :
        users[id].student_status = "graduate" =>
            LET r == confirm_graduation(db, today, AdminId, id, 0)
            IN  /\ r.reply.code = "ALREADY_GRADUATED"
                /\ r.db = db

\* C4: is_eligible_for_graduation of a 'current' student with graduation_year
\* Y is false at every date before June 1 of Y and true at every date from
\* June 1 of Y on; of a 'graduate' it is false at every date.
C4_EligibleFromJuneFirst ==
    returned.method = "is_eligible_for_graduation" =>
        returned.value =
            (/\ users["s1"].student_status = "current"
             /\ OnOrAfterJuneFirst(today, users["s1"].graduation_year))

\* the method answered true on June 1 of the graduation year
C4_Witness ==
    /\ returned.method = "is_eligible_for_graduation"
    /\ returned.value = TRUE
    /\ users["s1"].student_status = "current"
    /\ today = <<users["s1"].graduation_year, 6, 1>>

\* C5: wherever confirm_graduation succeeds on a student, revert_graduation
\* on the tables it leaves succeeds too, and leaves the student 'current',
\* with the academic fields it had before the confirm and no validation
\* error.
C5_ConfirmThenRevertRestores ==
    \A id \in DOMAIN users :
        LET confirmed == confirm_graduation(db, today, AdminId, id, 0)
            reverted == revert_graduation(confirmed.db, AdminId, id, 0)
        IN  confirmed.reply.success =>
                /\ reverted.reply.success
                /\ reverted.db.users[id].student_status = "current"
                /\ Academic(reverted.db.users[id]) = Academic(users[id])
                /\ validate_graduation_data(reverted.db.users[id]) = <<>>

\* a revert_graduation has succeeded right after the confirm_graduation of
\* the same student
C5_Witness ==
    /\ response.op = "revert_graduation"
    /\ response.success
    /\ Len(activity_logs) >= 2
    /\ activity_logs[Len(activity_logs) - 1].action = "STUDENT_GRADUATED"
    /\ activity_logs[Len(activity_logs) - 1].target_id = response.target
    /\ activity_logs[Len(activity_logs)].action = "STUDENT_GRADUATION_REVERTED"
    /\ users[response.target].student_status = "current"

BodyBreaksRule(student, data) ==
    LET type == IF data.studentType # Absent THEN data.studentType
                ELSE IF data.degreeLevel \in {"bachelor", "master"} THEN "regular"
                ELSE student.student_type
    IN  \/ ~DurationAllowed(data.degreeLevel, data.graduationYear - data.admissionYear)
        \/ ~TypeAllowed(data.degreeLevel, type)

\* C7: update_graduation_info of a 'current' student with a body whose values
\* break a rule answers VALIDATION_ERROR and leaves the users, activity_logs
\* and notifications tables as they were.
C7_InvalidGraduationInfoWritesNothing ==
    \A id \in Students :
        users[id].student_status = "current" =>
            \A data \in GraduationInfoBodies :
                (GraduationInfoMissing(data) = <<>> /\ BodyBreaksRule(users[id], data)) =>
                    LET r == update_graduation_info(db, AdminId, id, data, 0)
                    IN  /\ r.reply.code = "VALIDATION_ERROR"
                        /\ ~r.reply.success
                        /\ r.db.users = users
                        /\ r.db.activity_logs = activity_logs
                        /\ r.db.notifications = notifications

\* an update_graduation_info of a current student was answered
\* VALIDATION_ERROR by the handler
C7_Witness ==
    /\ response.op = "update_graduation_info"
    /\ response.code = "VALIDATION_ERROR"
    /\ response.status = DefaultErrorStatus
    /\ response.target \in Students
    /\ users[response.target].student_status = "current"
    /\ ~response.changed

C9_StoredStudentsSatisfyTheRules ==
    \A id \in Students :
        /\ (/\ users[id].degree_level # None
            /\ users[id].admission_year # NoYear
            /\ users[id].graduation_year # NoYear) =>
               DurationAllowed(users[id].degree_level,
                               users[id].graduation_year - users[id].admission_year)
        /\ TypeAllowed(users[id].degree_level, users[id].student_type)

\* C10: a successful confirm_graduation appends one activity log entry
\* STUDENT_GRADUATED, of the caller on the student, and one notification of
\* type 'success' to the student, and nothing else to the two tables; one
\* answered NOT_ELIGIBLE, ALREADY_GRADUATED, VALIDATION_ERROR or
\* STUDENT_NOT_FOUND leaves the two tables as they were.
C10_ConfirmAppendsOneLogAndOneNotification ==
    \A id \in Targets, fault \in Faults :
        LET r == confirm_graduation(db, today, AdminId, id, fault)
        IN  /\ r.reply.success =>
                  /\ r.db.activity_logs =
                       Append(activity_logs,
                              [user_id |-> AdminId, action |-> "STUDENT_GRADUATED",
                               target_id |-> id])
                  /\ Len(r.db.notifications) = Len(notifications) + 1
                  /\ SubSeq(r.db.notifications, 1, Len(notifications)) = notifications
                  /\ r.db.notifications[Len(r.db.notifications)].user_id = id
                  /\ r.db.notifications[Len(r.db.notifications)].type = "success"
            /\ r.reply.code \in {"NOT_ELIGIBLE", "ALREADY_GRADUATED", "VALIDATION_ERROR",
                                 "STUDENT_NOT_FOUND"} =>
                  /\ r.db.activity_logs = activity_logs
                  /\ r.db.notifications = notifications

\* a confirm_graduation has succeeded and its log entry and its notification
\* are the last rows of their tables
C10_Witness ==
    /\ response.op = "confirm_graduation"
    /\ response.success
    /\ Len(activity_logs) > 0
    /\ activity_logs[Len(activity_logs)].action = "STUDENT_GRADUATED"
    /\ Len(notifications) > 0
    /\ notifications[Len(notifications)].type = "success"
    /\ notifications[Len(notifications)].user_id = response.target

----------------------------------------------------------------------------
(* The graduation requests on tables that hold a graduate from the start:  *)
(* the sample data has one                                                 *)

\* the graduate of create_sample_data.py
SampleGraduate ==
    [role |-> "student", email |-> "e6", phone |-> None, student_id |-> "n3",
     faculty |-> "F1", direction |-> "D2",
     admission_year |-> 2019, graduation_year |-> 2023,
     degree_level |-> "bachelor", student_type |-> "regular",
     student_status |-> "graduate", is_verified |-> TRUE, is_blocked |-> FALSE,
     password_hash |-> "pw0", password_reset_token |-> NoToken,
     password_reset_expires |-> NoExpiry]

InitGraduation ==
    /\ users = ("a1" :> Staff("admin", "e1")) @@ ("t1" :> Staff("teacher", "e2"))
               @@ ("s1" :> SampleStudent) @@ ("s2" :> SampleGraduate)
    /\ activity_logs = <<>>
    /\ notifications = <<>>
    /\ teacher_students = <<>>
    /\ in_flight = <<>>
    /\ NoDictionaries
    /\ NoSessions
    /\ today = Calendar[1]
    /\ response = NoResponse
    /\ returned = NotReturned
    /\ writes = 0

NextGraduation ==
    \/ ConfirmGraduation
    \/ RevertGraduation
    \/ UpdateGraduationInfo
    \/ UpdateAdminStudent
    \/ Tick

SpecGraduation == InitGraduation /\ [][NextGraduation]_vars

\* C11: revert_graduation of a student that is not 'graduate' answers
\* NOT_GRADUATED and changes no table; of a 'graduate' it succeeds, whatever
\* the date and the graduation data of the student, sets student_status to
\* 'current' and nothing else in users, and appends one activity log entry
\* STUDENT_GRADUATION_REVERTED and one notification to the student.
C11_RevertOnlyOfGraduateAndUnchecked ==
    \A id \in Students :
        LET r == revert_graduation(db, AdminId, id, 0)
        IN  IF users[id].student_status # "graduate"
                THEN /\ r.reply.code = "NOT_GRADUATED"
                     /\ ~r.reply.success
                     /\ r.db = db
            ELSE /\ r.reply.success
                 /\ r.db.users = [users EXCEPT ![id].student_status = "current"]
                 /\ r.db.activity_logs =
                      Append(activity_logs,
                             [user_id |-> AdminId, action |-> "STUDENT_GRADUATION_REVERTED",
                              target_id |-> id])
                 /\ Len(r.db.notifications) = Len(notifications) + 1
                 /\ SubSeq(r.db.notifications, 1, Len(notifications)) = notifications
                 /\ r.db.notifications[Len(r.db.notifications)].user_id = id

\* a revert_graduation has succeeded on a student whose graduation data has
\* validation errors and who is not eligible for graduation
C11_Witness ==
    /\ response.op = "revert_graduation"
    /\ response.success
    /\ users[response.target].student_status = "current"
    /\ validate_graduation_data(users[response.target]) # <<>>
    /\ ~is_eligible_for_graduation(users[response.target], today)
    /\ activity_logs[Len(activity_logs)].action = "STUDENT_GRADUATION_REVERTED"

\* C12: confirm_graduation and revert_graduation of an id that is no student
\* answer STUDENT_NOT_FOUND with HTTP status 404; NOT_ELIGIBLE,
\* ALREADY_GRADUATED, VALIDATION_ERROR and NOT_GRADUATED come with HTTP status
\* 400; the error body holds success, code and message only, and no table
\* changes.
C12_NotFoundIs404AndRejectionsAre400 ==
    \A id \in Targets :
        LET confirmed == confirm_graduation(db, today, AdminId, id, 0)
            reverted == revert_graduation(db, AdminId, id, 0)
            Answered(r) ==
                /\ r.reply.code = "STUDENT_NOT_FOUND" <=> ~StudentFound(db, id)
                /\ r.reply.code = "STUDENT_NOT_FOUND" => r.reply.status = 404
                /\ r.reply.code \in {"NOT_ELIGIBLE", "ALREADY_GRADUATED",
                                     "VALIDATION_ERROR", "NOT_GRADUATED"} =>
                       r.reply.status = 400
                /\ ~r.reply.success => r.reply.details = <<>> /\ r.db = db
        IN  Answered(confirmed) /\ Answered(reverted)

\* C13: a confirm_graduation, revert_graduation or update_graduation_info
\* that answers DATABASE_ERROR leaves the users table as it was before the
\* call, and answers with a 500-class HTTP status.
C13_DatabaseErrorLeavesStudentAndIs500 ==
    \A id \in Students, fault \in Faults, data \in GraduationInfoBodies :
        LET Rolled(r) ==
                r.reply.code = "DATABASE_ERROR" =>
                    /\ r.db.users = users
                    /\ r.reply.status >= 500 /\ r.reply.status < 600
        IN  /\ Rolled(confirm_graduation(db, today, AdminId, id, fault))
            /\ Rolled(revert_graduation(db, AdminId, id, fault))
            /\ Rolled(update_graduation_info(db, AdminId, id, data, fault))

----------------------------------------------------------------------------
(* Assignment of students to teachers *)

\* students in one studentIds list
MaxBatch == 3

\* a row of teacher_students
TeacherStudent(teacher_id, student_id, assigned_by) ==
    [teacher_id |-> teacher_id, student_id |-> student_id, assigned_by |-> assigned_by]

\* a query that finds no row
AssignedNever(rows, teacher_id, student_id) == FALSE

\* TeacherStudent.query.filter_by(teacher_id, student_id).first() finds a row.
\* The query flushes the session first, so rows holds the rows the request
\* has added so far
Assigned(rows, teacher_id, student_id) ==
    \E i \in 1..Len(rows) :
        rows[i].teacher_id = teacher_id /\ rows[i].student_id = student_id

\* a loop body that drops the ids of no student without an error
AssignOneUncounted(d, acc, current_user, teacher_id, student_id) ==
    IF ~StudentFound(d, student_id) THEN acc
    ELSE IF Assigned(acc.rows, teacher_id, student_id)
        THEN [acc EXCEPT !.skipped = @ + 1]
    ELSE [acc EXCEPT
            !.rows = Append(@, TeacherStudent(teacher_id, student_id, current_user)),
            !.assigned = @ + 1]

\* the body of the loop of assign_students_to_teacher, for one student_id
AssignOne(d, acc, current_user, teacher_id, student_id) ==
    IF ~StudentFound(d, student_id)
        THEN [acc EXCEPT !.errors = Append(@, student_id)]
    ELSE IF Assigned(acc.rows, teacher_id, student_id)
        THEN [acc EXCEPT !.skipped = @ + 1]
    ELSE [acc EXCEPT
            !.rows = Append(@, TeacherStudent(teacher_id, student_id, current_user)),
            !.assigned = @ + 1]

RECURSIVE AssignEach(_, _, _, _, _)
\* the loop of assign_students_to_teacher over student_ids
AssignEach(d, acc, current_user, teacher_id, student_ids) ==
    IF student_ids = <<>> THEN acc
    ELSE AssignEach(d, AssignOne(d, acc, current_user, teacher_id, Head(student_ids)),
                    current_user, teacher_id, Tail(student_ids))

\* POST /teachers/<teacher_id>/students
assign_students_to_teacher(d, current_user, teacher_id, student_ids, fault) ==
    IF ~(teacher_id \in DOMAIN d.users /\ d.users[teacher_id].role = "teacher")
        THEN Result(d, error_response("TEACHER_NOT_FOUND", <<>>, 404), FALSE)
    ELSE IF student_ids = <<>>
        THEN Result(d, error_response("INVALID_STUDENT_IDS", <<>>, 400), FALSE)
    ELSE
        LET acc == AssignEach(d, [rows |-> d.teacher_students, assigned |-> 0,
                                  skipped |-> 0, errors |-> <<>>],
                              current_user, teacher_id, student_ids)
            d1 == [d EXCEPT !.teacher_students = acc.rows]
            d2 == [d1 EXCEPT !.activity_logs = Append(@,
                       ActivityLog(current_user, "STUDENTS_ASSIGNED_TO_TEACHER", teacher_id))]
            data == [assigned |-> acc.assigned, skipped |-> acc.skipped,
                     errors |-> acc.errors]
        IN  IF acc.assigned = 0
                THEN Result(d, [success_response(200) EXCEPT !.details = data], FALSE)
            ELSE IF fault = 1 THEN Result(d, internal_error, TRUE)
            ELSE IF fault = 2 THEN Result(d1, internal_error, TRUE)
            ELSE Result(d2, [success_response(200) EXCEPT !.details = data], FALSE)

\* the rows without every row of the student
WithoutStudent(rows, teacher_id, student_id) ==
    LET Other(row) == row.student_id # student_id
    IN  SelectSeq(rows, Other)

\* the rows after db.session.delete of the first row of the pair
WithoutAssignment(rows, teacher_id, student_id) ==
    LET first == CHOOSE i \in 1..Len(rows) :
                     /\ rows[i].teacher_id = teacher_id /\ rows[i].student_id = student_id
                     /\ \A j \in 1..(i - 1) :
                          ~(rows[j].teacher_id = teacher_id /\ rows[j].student_id = student_id)
    IN  SubSeq(rows, 1, first - 1) \o SubSeq(rows, first + 1, Len(rows))

\* DELETE /teachers/<teacher_id>/students/<student_id>
unassign_student_from_teacher(d, current_user, teacher_id, student_id, fault) ==
    IF ~Assigned(d.teacher_students, teacher_id, student_id)
        THEN Result(d, error_response("ASSIGNMENT_NOT_FOUND", <<>>, 404), FALSE)
    ELSE
        LET d1 == [d EXCEPT !.teacher_students = WithoutAssignment(@, teacher_id, student_id)]
            d2 == [d1 EXCEPT !.activity_logs = Append(@,
                       ActivityLog(current_user, "STUDENT_UNASSIGNED_FROM_TEACHER",
                                   teacher_id))]
        IN  IF fault = 1 THEN Result(d, internal_error, TRUE)
            ELSE IF fault = 2 THEN Result(d1, internal_error, TRUE)
            ELSE Result(d2, success_response(200), FALSE)

\* the <teacher_id> of a request: two teachers and a student
TeacherTargets == {"t1", "t2", "s1"}

\* the ids of a studentIds list: two students and an id of no row
AssignIds == {"s1", "s2", "x1"}

\* the studentIds lists: every list of up to MaxBatch ids, the empty one and
\* the ones that repeat an id among them
Batches == UNION {[1..n -> AssignIds] : n \in 0..MaxBatch}

AssignStudentsToTeacher ==
    /\ Live
    /\ \E current_user \in Actors :
       \E teacher_id \in Inputs(TeacherTargets, current_user, {"admin"}),
          student_ids \in Inputs(Batches, current_user, {"admin"}) :
           Serve("assign_students_to_teacher", current_user, teacher_id,
                 role_required(db, current_user, {"admin"},
                     assign_students_to_teacher(db, current_user, teacher_id,
                                                student_ids, 0)))

UnassignStudentFromTeacher ==
    /\ Live
    /\ \E current_user \in Actors :
       \E teacher_id \in Inputs(TeacherTargets, current_user, {"admin"}),
          student_id \in Inputs(AssignIds, current_user, {"admin"}) :
           Serve("unassign_student_from_teacher", current_user, teacher_id,
                 role_required(db, current_user, {"admin"},
                     unassign_student_from_teacher(db, current_user, teacher_id,
                                                   student_id, 0)))

InitAssign ==
    /\ users = ("a1" :> Staff("admin", "e1")) @@ ("t1" :> Staff("teacher", "e2"))
               @@ ("t2" :> Staff("teacher", "e7"))
               @@ ("s1" :> SampleStudent) @@ ("s2" :> SampleGraduate)
    /\ activity_logs = <<>>
    /\ notifications = <<>>
    /\ teacher_students = <<>>
    /\ in_flight = <<>>
    /\ NoDictionaries
    /\ NoSessions
    /\ today = Calendar[1]
    /\ response = NoResponse
    /\ returned = NotReturned
    /\ writes = 0

NextAssign ==
    \/ AssignStudentsToTeacher
    \/ UnassignStudentFromTeacher

SpecAssign == InitAssign /\ [][NextAssign]_vars

\* the rows of the pair
RowsOf(rows, teacher_id, student_id) ==
    {i \in 1..Len(rows) :
        rows[i].teacher_id = teacher_id /\ rows[i].student_id = student_id}

\* C14: teacher_students holds at most one row for each pair of a teacher
\* and a student; assigning a pair that has a row answers skipped = 1,
\* assigned = 0 and leaves the tables as they were; a list that names one
\* unassigned student twice makes one row, assigned = 1 and skipped = 1.
C14_OneRowPerPair ==
    /\ \A i, j \in 1..Len(teacher_students) :
         (/\ teacher_students[i].teacher_id = teacher_students[j].teacher_id
          /\ teacher_students[i].student_id = teacher_students[j].student_id) => i = j
    /\ \A teacher_id \in {"t1", "t2"}, student_id \in Students :
         LET once == assign_students_to_teacher(db, AdminId, teacher_id,
                                                <<student_id>>, 0)
             twice == assign_students_to_teacher(db, AdminId, teacher_id,
                                                 <<student_id, student_id>>, 0)
         IN  IF Assigned(teacher_students, teacher_id, student_id)
                 THEN /\ once.reply.success
                      /\ once.reply.details.assigned = 0
                      /\ once.reply.details.skipped = 1
                      /\ once.db = db
             ELSE /\ twice.reply.success
                  /\ twice.reply.details.assigned = 1
                  /\ twice.reply.details.skipped = 1
                  /\ Cardinality(RowsOf(twice.db.teacher_students, teacher_id,
                                        student_id)) = 1

\* a pair that has a row was assigned again and skipped
C14_Witness ==
    /\ response.op = "assign_students_to_teacher"
    /\ response.success
    /\ response.details.skipped > 0
    /\ response.details.assigned = 0
    /\ Len(teacher_students) > 0

\* C15: assign_students_to_teacher on a teacher with a non-empty list counts
\* every id of the list once: assigned + skipped + the number of errors is
\* the length of the list; the errors are the ids of no student, in order;
\* every student of the list has a row with the teacher afterwards; the rows
\* before the call are kept, and the new ones are as many as assigned and
\* have assigned_by = the acting admin.
C15_EveryIdIsCountedOnce ==
    \A teacher_id \in {"t1", "t2"}, student_ids \in Batches \ {<<>>} :
        LET r == assign_students_to_teacher(db, AdminId, teacher_id, student_ids, 0)
            data == r.reply.details
            rows == r.db.teacher_students
            NoStudent(id) == ~(id \in DOMAIN users /\ users[id].role = "student")
        IN  /\ r.reply.success
            /\ data.assigned + data.skipped + Len(data.errors) = Len(student_ids)
            /\ data.errors = SelectSeq(student_ids, NoStudent)
            /\ \A i \in 1..Len(student_ids) :
                 ~NoStudent(student_ids[i]) =>
                     Cardinality(RowsOf(rows, teacher_id, student_ids[i])) = 1
            /\ Len(rows) = Len(teacher_students) + data.assigned
            /\ SubSeq(rows, 1, Len(teacher_students)) = teacher_students
            /\ \A i \in (Len(teacher_students) + 1)..Len(rows) :
                 /\ rows[i].assigned_by = AdminId
                 /\ rows[i].teacher_id = teacher_id

\* a list with an id of no student between two students was served: both
\* students were assigned and the id is the one error
C15_Witness ==
    /\ response.op = "assign_students_to_teacher"
    /\ response.success
    /\ response.details.assigned = 2
    /\ response.details.errors = <<"x1">>
    /\ Len(teacher_students) = 2
    /\ teacher_students[1].student_id # teacher_students[2].student_id

\* C16: unassign_student_from_teacher of a pair that has a row removes that
\* row and no other, leaves users as it was, and a second unassign of the
\* pair answers ASSIGNMENT_NOT_FOUND; of a pair that has no row it answers
\* ASSIGNMENT_NOT_FOUND with HTTP status 404 and changes no table.
C16_UnassignRemovesExactlyThePair ==
    \A teacher_id \in TeacherTargets, student_id \in AssignIds :
        LET r == unassign_student_from_teacher(db, AdminId, teacher_id, student_id, 0)
            again == unassign_student_from_teacher(r.db, AdminId, teacher_id,
                                                   student_id, 0)
            Other(row) == ~(row.teacher_id = teacher_id /\ row.student_id = student_id)
        IN  IF RowsOf(teacher_students, teacher_id, student_id) # {}
                THEN /\ r.reply.success
                     /\ r.db.users = users
                     /\ Len(r.db.teacher_students) = Len(teacher_students) - 1
                     /\ r.db.teacher_students = SelectSeq(teacher_students, Other)
                     /\ again.reply.code = "ASSIGNMENT_NOT_FOUND"
                     /\ again.db = r.db
            ELSE /\ r.reply.code = "ASSIGNMENT_NOT_FOUND"
                 /\ r.reply.status = 404
                 /\ ~r.reply.success
                 /\ r.db = db

\* a pair was unassigned while another row stayed
C16_Witness ==
    /\ response.op = "unassign_student_from_teacher"
    /\ response.success
    /\ Len(teacher_students) > 0
    /\ activity_logs[Len(activity_logs)].action = "STUDENT_UNASSIGNED_FROM_TEACHER"

----------------------------------------------------------------------------
(* Accounts: the handlers that write email, phone and student_id *)

\* the errors create_admin_teacher collects for the body data
CreateTeacherErrors(d, data) ==
    (IF Existing(d, "email", data.email) THEN <<"email">> ELSE <<>>)
    \o (IF data.phone \notin {Absent, None} /\ Existing(d, "phone", data.phone)
            THEN <<"phone">> ELSE <<>>)

\* POST /teachers
create_admin_teacher(d, current_user, data, fault) ==
    LET errors == CreateTeacherErrors(d, data)
        id == NewId(d)
        teacher == [NewUser EXCEPT
            !.role = "teacher",
            !.email = data.email,
            !.phone = Given(data.phone, None),
            !.faculty = Given(data.faculty, None),
            !.direction = Given(data.direction, None),
            !.is_verified = TRUE]
        d1 == [d EXCEPT !.users = (id :> teacher) @@ @]
        d2 == [d1 EXCEPT !.activity_logs = Append(@,
                   ActivityLog(current_user, "TEACHER_CREATED", id))]
    IN  IF errors # <<>>
            THEN Result(d, error_response("VALIDATION_ERROR", errors, 422), FALSE)
        ELSE IF fault = 1 \/ UniqueViolated(d1.users) THEN Result(d, internal_error, TRUE)
        ELSE IF fault = 2 THEN Result(d1, internal_error, TRUE)
        ELSE Result(d2, success_response(201), FALSE)

\* User.query.filter_by(id=teacher_id, role='teacher').first() finds a row
TeacherFound(d, teacher_id) ==
    teacher_id \in DOMAIN d.users /\ d.users[teacher_id].role = "teacher"

\* the errors update_admin_teacher collects for the body data
UpdateTeacherErrors(d, teacher, data) ==
    (IF data.email # Absent /\ data.email # teacher.email
        /\ Existing(d, "email", data.email) THEN <<"email">> ELSE <<>>)
    \o (IF data.phone \notin {Absent, None} /\ data.phone # teacher.phone
           /\ Existing(d, "phone", data.phone) THEN <<"phone">> ELSE <<>>)

\* PUT /teachers/<teacher_id>
update_admin_teacher(d, current_user, teacher_id, data, fault) ==
    IF ~TeacherFound(d, teacher_id)
        THEN Result(d, error_response("TEACHER_NOT_FOUND", <<>>, 404), FALSE)
    ELSE
        LET old == d.users[teacher_id]
            errors == UpdateTeacherErrors(d, old, data)
            teacher == [old EXCEPT
                !.email = Given(data.email, @),
                !.phone = Given(data.phone, @),
                !.faculty = Given(data.faculty, @),
                !.direction = Given(data.direction, @)]
            d1 == [d EXCEPT !.users[teacher_id] = teacher]
            d2 == [d1 EXCEPT !.activity_logs = Append(@,
                       ActivityLog(current_user, "TEACHER_UPDATED", teacher_id))]
        IN  IF errors # <<>>
                THEN Result(d, error_response("VALIDATION_ERROR", errors, 422), FALSE)
            ELSE IF teacher = old THEN Result(d, success_response(200), FALSE)
            ELSE IF fault = 1 \/ UniqueViolated(d1.users)
                THEN Result(d, internal_error, TRUE)
            ELSE IF fault = 2 THEN Result(d1, internal_error, TRUE)
            ELSE Result(d2, success_response(200), FALSE)

\* bodies of POST /auth/register that hold a phone and a studentId
AccountRegisterBodies ==
    [email : {"e3", "e5"}, phone : {Absent, "p1"}, studentId : {Absent, "n1"},
     faculty : {"F1"}, direction : {"D1"}]

\* bodies of POST /students that hold a phone
AccountStudentBodies ==
    { [NewStudent("e4", "n2", "bachelor", Absent, 2021, 2025) EXCEPT !.phone = "p7"],
      [NewStudent("e4", "n2", "bachelor", Absent, 2021, 2025) EXCEPT !.phone = "p4"],
      NewStudent("e6", "n2", "bachelor", Absent, 2021, 2025) }

\* bodies of PUT /students/<student_id> that write a unique column
AccountUpdateBodies ==
    { [EmptyUpdate EXCEPT !.email = "e6"],
      [EmptyUpdate EXCEPT !.phone = "p4"],
      [EmptyUpdate EXCEPT !.phone = "p8"],
      [EmptyUpdate EXCEPT !.studentId = "n3"] }

\* bodies of POST /teachers
TeacherBodies ==
    [email : {"e2", "e8"}, phone : {Absent, "p1"}, faculty : {"F1"},
     direction : {"D1"}]

\* bodies of PUT /teachers/<teacher_id>
TeacherUpdateBodies ==
    [email : {Absent, "e3"}, phone : {Absent, "p4", "p6"}, faculty : {Absent},
     direction : {Absent}]

\* bodies of PUT /profile that hold a phone
AccountProfileBodies ==
    [phone : {"p4", "p9"}, faculty : {Absent}, direction : {Absent}]

\* the users who edit their profile
ProfileActors == {"s1", "t1"}

\* the students an account request names
AccountStudents == {"s1", "s2"}

RegisterAccount ==
    /\ Live
    /\ \E data \in AccountRegisterBodies :
           Serve("register", None, NewId(db), register(db, data, 0))

CreateStudentAccount ==
    /\ Live
    /\ \E data \in AccountStudentBodies :
           Serve("create_admin_student", AdminId, NewId(db),
                 role_required(db, AdminId, {"admin"},
                     create_admin_student(db, AdminId, data, 0)))

CreateAdminTeacher ==
    /\ Live
    /\ \E data \in TeacherBodies :
           Serve("create_admin_teacher", AdminId, NewId(db),
                 role_required(db, AdminId, {"admin"},
                     create_admin_teacher(db, AdminId, data, 0)))

UpdateStudentAccount ==
    /\ Live
    /\ \E student_id \in AccountStudents, data \in AccountUpdateBodies :
           Serve("update_admin_student", AdminId, student_id,
                 role_required(db, AdminId, {"admin"},
                     update_admin_student(db, AdminId, student_id, data, 0)))

UpdateAdminTeacher ==
    /\ Live
    /\ \E teacher_id \in {"t1", "s1"}, data \in TeacherUpdateBodies :
           Serve("update_admin_teacher", AdminId, teacher_id,
                 role_required(db, AdminId, {"admin"},
                     update_admin_teacher(db, AdminId, teacher_id, data, 0)))

UpdateProfileAccount ==
    /\ Live
    /\ \E current_user \in ProfileActors, data \in AccountProfileBodies :
           Serve("update_profile", current_user, current_user,
                 update_profile(db, current_user, data, 0))

\* the tables of create_sample_data.py, whose students have a phone
InitAccounts ==
    /\ users = ("a1" :> Staff("admin", "e1")) @@ ("t1" :> Staff("teacher", "e2"))
               @@ ("s1" :> [SampleStudent EXCEPT !.phone = "p1"])
               @@ ("s2" :> [SampleGraduate EXCEPT !.phone = "p4"])
    /\ activity_logs = <<>>
    /\ notifications = <<>>
    /\ teacher_students = <<>>
    /\ in_flight = <<>>
    /\ NoDictionaries
    /\ NoSessions
    /\ today = Calendar[1]
    /\ response = NoResponse
    /\ returned = NotReturned
    /\ writes = 0

NextAccounts ==
    \/ RegisterAccount
    \/ CreateStudentAccount
    \/ CreateAdminTeacher
    \/ UpdateStudentAccount
    \/ UpdateAdminTeacher
    \/ UpdateProfileAccount

SpecAccounts == InitAccounts /\ [][NextAccounts]_vars

\* the value the body gives for a key, Absent when the body has no such key
Field(data, key) == IF key \in DOMAIN data THEN data[key] ELSE Absent

\* a row other than self holds value in column
Taken(column, value, self) ==
    \E id \in DOMAIN users \ {self} : users[id][column] = value

\* writing the body to the row of self (None: to a new row) would give two
\* rows one email, one phone or one student_id
IntroducesDuplicate(data, self) ==
    \/ Field(data, "email") # Absent /\ Taken("email", Field(data, "email"), self)
    \/ Field(data, "phone") \notin {Absent, None}
         /\ Taken("phone", Field(data, "phone"), self)
    \/ Field(data, "studentId") \notin {Absent, None}
         /\ Taken("student_id", Field(data, "studentId"), self)

\* the request was rejected with a validation error and wrote nothing
RejectedAsInvalid(r) == r.reply.code = "VALIDATION_ERROR" /\ r.db = db

\* C17: email, non-null phone and non-null student_id are unique among the
\* stored users, and every register, create_admin_student,
\* create_admin_teacher, update_admin_student, update_admin_teacher and
\* update_profile call that would introduce a duplicate is rejected with a
\* validation error and leaves the tables unchanged
C17_DuplicatesAreRejectedAsValidationErrors ==
    /\ ~UniqueViolated(users)
    /\ \A data \in AccountRegisterBodies :
         IntroducesDuplicate(data, None) => RejectedAsInvalid(register(db, data, 0))
    /\ \A data \in AccountStudentBodies :
         IntroducesDuplicate(data, None)
            => RejectedAsInvalid(create_admin_student(db, AdminId, data, 0))
    /\ \A data \in TeacherBodies :
         IntroducesDuplicate(data, None)
            => RejectedAsInvalid(create_admin_teacher(db, AdminId, data, 0))
    /\ \A id \in DOMAIN users, data \in AccountUpdateBodies :
         StudentFound(db, id) /\ IntroducesDuplicate(data, id)
            => RejectedAsInvalid(update_admin_student(db, AdminId, id, data, 0))
    /\ \A id \in DOMAIN users, data \in TeacherUpdateBodies :
         TeacherFound(db, id) /\ IntroducesDuplicate(data, id)
            => RejectedAsInvalid(update_admin_teacher(db, AdminId, id, data, 0))
    /\ \A id \in DOMAIN users, data \in AccountProfileBodies :
         IntroducesDuplicate(data, id)
            => RejectedAsInvalid(update_profile(db, id, data, 0))

----------------------------------------------------------------------------
(* Concurrent registration: the requests of several workers run register  *)
(* at once, each in a session of its own, and interleave between any two  *)
(* statements that reach the database                                      *)

\* the requests that are served at once
MaxRequests == 2

\* bodies of the concurrent POST /auth/register requests
RaceBodies ==
    [email : {"e3", "e5"}, phone : {Absent, "p5"}, studentId : {Absent},
     faculty : {"F1"}, direction : {"D1"}]

\* the existence queries of register
RegisterQueries == {"email", "phone", "student_id"}

\* the statement register runs after the existence query for a column
AfterQuery(column) ==
    IF column = "email" THEN "phone"
    ELSE IF column = "phone" THEN "student_id"
    ELSE "commit"

\* what the existence query for a column adds to errors, on the committed rows
RegisterQueryErrors(d, data, column) ==
    IF column = "email"
        THEN (IF Existing(d, "email", data.email) THEN <<"email">> ELSE <<>>)
    ELSE IF column = "phone"
        THEN (IF data.phone \notin {Absent, None} /\ Existing(d, "phone", data.phone)
                THEN <<"phone">> ELSE <<>>)
    ELSE (IF data.studentId \notin {Absent, None}
             /\ Existing(d, "student_id", data.studentId)
            THEN <<"studentId">> ELSE <<>>)

\* the row register adds for the body data
RegisteredUser(data) ==
    [NewUser EXCEPT
        !.email = data.email,
        !.phone = Given(data.phone, None),
        !.student_id = Given(data.studentId, None),
        !.faculty = data.faculty,
        !.direction = data.direction]

\* a request in flight: its body, the statement it runs next (the query for a
\* column of RegisterQueries, then "commit", then "log", then "done"), the errors it has
\* collected, the row it stored and its reply
Request(data) ==
    [data |-> data, pc |-> "email", errors |-> <<>>, stored |-> None,
     reply |-> NoResponse.code, status |-> 0]

\* the request that is i-th in flight has answered
Answer(i, pc, stored, reply) ==
    in_flight' = [in_flight EXCEPT ![i] = [@ EXCEPT
                     !.pc = pc, !.stored = stored,
                     !.reply = reply.code, !.status = reply.status]]

\* a worker takes a request
RegisterStart ==
    /\ Len(in_flight) < MaxRequests
    /\ \E data \in RaceBodies : in_flight' = Append(in_flight, Request(data))
    /\ UNCHANGED <<users, activity_logs, notifications, teacher_students, today,
                   response, returned, writes,
                   dictionaries, drawn, sessions>>

\* a request makes its next existence query; after the last one it returns
\* VALIDATION_ERROR when it has errors
RegisterQuery ==
    /\ \E i \in 1..Len(in_flight) :
         LET request == in_flight[i]
         IN  /\ request.pc \in RegisterQueries
             /\ LET errors == request.errors
                        \o RegisterQueryErrors(db, request.data, request.pc)
                IN  IF AfterQuery(request.pc) \in RegisterQueries
                        THEN in_flight' = [in_flight EXCEPT ![i] = [@ EXCEPT
                                 !.pc = AfterQuery(request.pc), !.errors = errors]]
                    ELSE IF errors # <<>>
                        THEN in_flight' = [in_flight EXCEPT ![i] = [@ EXCEPT
                                 !.pc = "done", !.errors = errors,
                                 !.reply = "VALIDATION_ERROR", !.status = 422]]
                    ELSE in_flight' = [in_flight EXCEPT ![i] = [@ EXCEPT
                                 !.pc = "commit", !.errors = errors]]
    /\ UNCHANGED <<users, activity_logs, notifications, teacher_students, today,
                   response, returned, writes,
                   dictionaries, drawn, sessions>>

\* db.session.add(user); db.session.commit(): the row is stored unless a
\* unique constraint refuses it, and then the exception leaves the handler
RegisterCommit ==
    /\ \E i \in 1..Len(in_flight) :
         LET request == in_flight[i]
             id == NewId(db)
             table == (id :> RegisteredUser(request.data)) @@ users
         IN  /\ request.pc = "commit"
             /\ IF UniqueViolated(table)
                    THEN /\ Answer(i, "done", None, internal_error)
                         /\ UNCHANGED users
                    ELSE /\ in_flight' = [in_flight EXCEPT ![i] = [@ EXCEPT
                                 !.pc = "log", !.stored = id]]
                         /\ users' = table
    /\ UNCHANGED <<activity_logs, notifications, teacher_students, today,
                   response, returned, writes,
                   dictionaries, drawn, sessions>>

\* the USER_REGISTERED entry is committed and the request returns 201
RegisterLog ==
    /\ \E i \in 1..Len(in_flight) :
         LET request == in_flight[i]
         IN  /\ request.pc = "log"
             /\ activity_logs' = Append(activity_logs,
                    ActivityLog(request.stored, "USER_REGISTERED", None))
             /\ Answer(i, "done", request.stored, success_response(201))
    /\ UNCHANGED <<users, notifications, teacher_students, today,
                   response, returned, writes,
                   dictionaries, drawn, sessions>>

InitRace == Init

NextRace ==
    \/ RegisterStart
    \/ RegisterQuery
    \/ RegisterCommit
    \/ RegisterLog

SpecRace == InitRace /\ [][NextRace]_vars

\* the request passed all its existence queries
PassedTheCheck(request) ==
    request.pc \in {"commit", "log", "done"} /\ request.errors = <<>>

\* the rows that hold the email
RowsWithEmail(email) == {id \in DOMAIN users : users[id].email = email}

\* C18: when two register requests for the same new email both pass the
\* existence check before either commits, at most one row with that email is
\* stored, and the request that commits second ends in the unhandled
\* database error (INTERNAL_ERROR, 500), not in VALIDATION_ERROR
C18_RaceStoresOneRowAndLoserIsUnhandled ==
    /\ \A id \in DOMAIN users : Cardinality(RowsWithEmail(users[id].email)) = 1
    /\ \A i, j \in 1..Len(in_flight) :
         LET first == in_flight[i]
             second == in_flight[j]
         IN  /\ i # j
             /\ first.data.email = second.data.email
             /\ PassedTheCheck(first) /\ PassedTheCheck(second)
             /\ first.stored # None
             => /\ second.stored = None
                /\ second.pc = "done"
                      => second.reply = "INTERNAL_ERROR" /\ second.status = 500

\* both requests passed the check for one email, one stored its row and
\* returned 201, the other has returned
C18_Witness ==
    \E i, j \in 1..Len(in_flight) :
        /\ i # j
        /\ in_flight[i].data.email = in_flight[j].data.email
        /\ in_flight[i].errors = <<>> /\ in_flight[j].errors = <<>>
        /\ in_flight[i].pc = "done" /\ in_flight[i].status = 201
        /\ in_flight[j].pc = "done" /\ in_flight[j].reply = "INTERNAL_ERROR"

----------------------------------------------------------------------------
(* Records: the audit log and the notifications, with the handlers that   *)
(* delete users and the handlers that mark notifications as read          *)

\* the rows of a child table with the foreign key to the deleted user set to
\* NULL: what the session does for a relationship without delete cascade
LogsWithoutAuthor(rows, id) ==
    [i \in 1..Len(rows) |->
        IF rows[i].user_id = id THEN [rows[i] EXCEPT !.user_id = None] ELSE rows[i]]

AssignmentsWithoutUser(rows, id) ==
    [i \in 1..Len(rows) |->
        [rows[i] EXCEPT
            !.teacher_id = IF @ = id THEN None ELSE @,
            !.student_id = IF @ = id THEN None ELSE @]]

\* the rows of the users that are left: the delete cascade of User.notifications
NotificationsOf(rows, table) ==
    SelectSeq(rows, LAMBDA n : n.user_id \in DOMAIN table)

\* a delete that removes the row of the user and touches no other table
DeleteUserAlone(d, id) ==
    [d EXCEPT !.users = [k \in DOMAIN d.users \ {id} |-> d.users[k]]]

\* what the flush of db.session.delete(user) sends to the database
DeleteUser(d, id) ==
    LET table == [k \in DOMAIN d.users \ {id} |-> d.users[k]]
    IN  [d EXCEPT
            !.users = table,
            !.notifications = NotificationsOf(d.notifications, table),
            !.activity_logs = LogsWithoutAuthor(d.activity_logs, id),
            !.teacher_students = AssignmentsWithoutUser(d.teacher_students, id)]

\* a database that accepts NULL in the columns declared nullable=False
NotNullUnenforced(d) == FALSE

\* a column declared nullable=False holds NULL: the commit raises IntegrityError
NotNullViolated(d) ==
    \/ \E i \in 1..Len(d.activity_logs) : d.activity_logs[i].user_id = None
    \/ \E i \in 1..Len(d.teacher_students) :
          \/ d.teacher_students[i].teacher_id = None
          \/ d.teacher_students[i].student_id = None

\* DELETE /students/<student_id>
delete_admin_student(d, current_user, student_id, fault) ==
    IF ~StudentFound(d, student_id)
        THEN Result(d, error_response("STUDENT_NOT_FOUND", <<>>, 404), FALSE)
    ELSE
        LET d1 == DeleteUser(d, student_id)
            d2 == [d1 EXCEPT !.activity_logs = Append(@,
                       ActivityLog(current_user, "STUDENT_DELETED", student_id))]
        IN  IF fault = 1 \/ NotNullViolated(d1) THEN Result(d, internal_error, TRUE)
            ELSE IF fault = 2 THEN Result(d1, internal_error, TRUE)
            ELSE Result(d2, success_response(200), FALSE)

\* DELETE /teachers/<teacher_id>
delete_admin_teacher(d, current_user, teacher_id, fault) ==
    IF ~TeacherFound(d, teacher_id)
        THEN Result(d, error_response("TEACHER_NOT_FOUND", <<>>, 404), FALSE)
    ELSE
        LET d1 == DeleteUser(d, teacher_id)
            d2 == [d1 EXCEPT !.activity_logs = Append(@,
                       ActivityLog(current_user, "TEACHER_DELETED", teacher_id))]
        IN  IF fault = 1 \/ NotNullViolated(d1) THEN Result(d, internal_error, TRUE)
            ELSE IF fault = 2 THEN Result(d1, internal_error, TRUE)
            ELSE Result(d2, success_response(200), FALSE)

\* Notification.query.filter_by(id=notification_id, user_id=current_user_id)
\* finds a row; the id of a row is its place in the table
NotificationFound(d, current_user, notification_id) ==
    /\ notification_id \in 1..Len(d.notifications)
    /\ d.notifications[notification_id].user_id = current_user

\* a mark_notification_read that stamps read_at whenever it is called
mark_notification_read_restamping(d, now, current_user, notification_id, fault) ==
    IF ~NotificationFound(d, current_user, notification_id)
        THEN Result(d, error_response("NOTIFICATION_NOT_FOUND", <<>>, 404), FALSE)
    ELSE Result([d EXCEPT !.notifications[notification_id] =
                     [@ EXCEPT !.read = TRUE, !.read_at = now]],
                success_response(200), FALSE)

\* PATCH /notifications/<notification_id>/read
mark_notification_read(d, now, current_user, notification_id, fault) ==
    IF ~NotificationFound(d, current_user, notification_id)
        THEN Result(d, error_response("NOTIFICATION_NOT_FOUND", <<>>, 404), FALSE)
    ELSE IF d.notifications[notification_id].read
        THEN Result(d, success_response(200), FALSE)
    ELSE IF fault # 0 THEN Result(d, internal_error, TRUE)
    ELSE Result([d EXCEPT !.notifications[notification_id] =
                     [@ EXCEPT !.read = TRUE, !.read_at = now]],
                success_response(200), FALSE)

\* PATCH /notifications/mark-all-read
mark_all_notifications_read(d, now, current_user, fault) ==
    LET marked == [i \in 1..Len(d.notifications) |->
                      IF d.notifications[i].user_id = current_user
                         /\ ~d.notifications[i].read
                      THEN [d.notifications[i] EXCEPT !.read = TRUE, !.read_at = now]
                      ELSE d.notifications[i]]
    IN  IF fault # 0 THEN Result(d, internal_error, TRUE)
        ELSE Result([d EXCEPT !.notifications = marked], success_response(200), FALSE)

\* the users a delete request names
DeleteTargets == {"s1", "s2", "s9", "t1", "t2"}

\* the holders of a token who ask for their notifications
Readers == {"s1", "s2"}

\* the ids of notifications a request names
NotificationIds == {1, 2}

DeleteAdminStudent ==
    /\ Live
    /\ \E student_id \in DeleteTargets, fault \in Faults :
           Serve("delete_admin_student", AdminId, student_id,
                 role_required(db, AdminId, {"admin"},
                     delete_admin_student(db, AdminId, student_id, fault)))

DeleteAdminTeacher ==
    /\ Live
    /\ \E teacher_id \in DeleteTargets :
           Serve("delete_admin_teacher", AdminId, teacher_id,
                 role_required(db, AdminId, {"admin"},
                     delete_admin_teacher(db, AdminId, teacher_id, 0)))

MarkNotificationRead ==
    /\ Live
    /\ \E current_user \in Readers, notification_id \in NotificationIds :
           Serve("mark_notification_read", current_user, current_user,
                 mark_notification_read(db, today, current_user, notification_id, 0))

MarkAllNotificationsRead ==
    /\ Live
    /\ \E current_user \in Readers :
           Serve("mark_all_notifications_read", current_user, current_user,
                 mark_all_notifications_read(db, today, current_user, 0))

\* the sample tables with a second teacher, whom the graduate is assigned to
InitRecords ==
    /\ users = ("a1" :> Staff("admin", "e1")) @@ ("t1" :> Staff("teacher", "e2"))
               @@ ("t2" :> Staff("teacher", "e7"))
               @@ ("s1" :> SampleStudent) @@ ("s9" :> SampleGraduate)
    /\ activity_logs = <<>>
    /\ notifications = <<>>
    /\ teacher_students = <<TeacherStudent("t2", "s9", "a1")>>
    /\ in_flight = <<>>
    /\ NoDictionaries
    /\ NoSessions
    /\ today = Calendar[1]
    /\ response = NoResponse
    /\ returned = NotReturned
    /\ writes = 0

NextRecords ==
    \/ Register
    \/ VerifyAdminStudent
    \/ BlockAdminStudent
    \/ DeleteAdminStudent
    \/ DeleteAdminTeacher
    \/ MarkNotificationRead
    \/ MarkAllNotificationsRead
    \/ Tick

SpecRecords == InitRecords /\ [][NextRecords]_vars

\* C19: the ActivityLog is append-only: whatever request is served, the
\* deletion of the student or teacher an entry refers to and of the user who
\* performed it included, every entry written before is still there with all
\* its fields unchanged
C19_ActivityLogIsAppendOnly ==
    [][/\ Len(activity_logs') >= Len(activity_logs)
       /\ SubSeq(activity_logs', 1, Len(activity_logs)) = activity_logs]_vars

\* a student was deleted and the entry written earlier about them is there
C19_Witness ==
    /\ response.op = "delete_admin_student"
    /\ response.success
    /\ response.target \notin DOMAIN users
    /\ \E i \in 1..Len(activity_logs) :
          /\ activity_logs[i].target_id = response.target
          /\ activity_logs[i].action # "STUDENT_DELETED"

\* the deletion of a user who performed an entry was asked for, and the
\* entry is there as it was
C19_AuthorWitness ==
    /\ response.op = "delete_admin_student"
    /\ response.code = "INTERNAL_ERROR"
    /\ \E i \in 1..Len(activity_logs) : activity_logs[i].user_id = response.target

\* the calls that mark notifications as read
MarkCalls == {"mark_notification_read", "mark_all_notifications_read"}

\* C20: an existing Notification is changed only by mark_notification_read and
\* mark_all_notifications_read, and only from read = FALSE to read = TRUE with
\* read_at set; title, message, type and user_id never change, read never
\* returns to FALSE, and marking a read notification again leaves read_at as
\* it was. (The rows of a deleted user leave the table with the user.)
C20_NotificationsChangeOnlyByBeingRead ==
    /\ [][LET before == NotificationsOf(notifications, users')
          IN  /\ Len(notifications') >= Len(before)
              /\ \A i \in 1..Len(before) :
                   \/ notifications'[i] = before[i]
                   \/ /\ response'.op \in MarkCalls
                      /\ ~before[i].read
                      /\ notifications'[i] = [before[i] EXCEPT !.read = TRUE,
                                                               !.read_at = today]]_vars
    /\ [](\A current_user \in Readers, id \in NotificationIds :
            NotificationFound(db, current_user, id) /\ notifications[id].read
               => /\ mark_notification_read(db, today, current_user, id, 0).db = db
                  /\ mark_all_notifications_read(db, today, current_user, 0)
                        .db.notifications[id] = notifications[id])

\* a reader whose notifications were read on an earlier day marked one again
C20_Witness ==
    /\ response.op = "mark_notification_read"
    /\ response.success
    /\ ~response.changed
    /\ \E i \in 1..Len(notifications) : notifications[i].user_id = response.caller
    /\ \A i \in 1..Len(notifications) :
          notifications[i].user_id = response.caller
             => /\ notifications[i].read
                /\ notifications[i].read_at # NoDate
                /\ notifications[i].read_at # today

----------------------------------------------------------------------------
(* Dictionaries: faculties and their directions *)

\* the tokens the primary key defaults of the two tables draw
FacultyIds == <<"f1", "f2", "f3", "f4", "f5">>
DirectionIds == <<"d1", "d2", "d3", "d4", "d5">>

\* the primary key default: the first token of pool that no row of table has
FreshId(pool, table) ==
    pool[CHOOSE i \in 1..Len(pool) :
             /\ pool[i] \notin DOMAIN table
             /\ \A j \in 1..(i - 1) : pool[j] \in DOMAIN table]

Faculty(name) == [name |-> name]

Direction(name, faculty_id) == [name |-> name, faculty_id |-> faculty_id]

\* Faculty.query.filter_by(name=name).first() finds a row
FacultyNamed(d, name) ==
    \E id \in DOMAIN d.faculties : d.faculties[id].name = name

\* Direction.query.filter_by(name=name, faculty_id=faculty_id).first() finds a row
DirectionNamed(d, name, faculty_id) ==
    \E id \in DOMAIN d.directions :
        d.directions[id].name = name /\ d.directions[id].faculty_id = faculty_id

\* POST /faculties
create_faculty(d, current_user, data, fault) ==
    IF FacultyNamed(d, data.name)
        THEN Result(d, error_response("FACULTY_EXISTS", <<>>, 400), FALSE)
    ELSE IF fault # 0 THEN Result(d, internal_error, TRUE)
    ELSE Result([d EXCEPT !.faculties =
                     (FreshId(FacultyIds, d.faculties) :> Faculty(data.name)) @@ @],
                success_response(201), FALSE)

\* PUT /faculties/<faculty_id>
update_faculty(d, current_user, faculty_id, data, fault) ==
    IF faculty_id \notin DOMAIN d.faculties
        THEN Result(d, error_response("FACULTY_NOT_FOUND", <<>>, 404), FALSE)
    ELSE IF data.name # Absent /\ data.name # d.faculties[faculty_id].name
            /\ FacultyNamed(d, data.name)
        THEN Result(d, error_response("FACULTY_EXISTS", <<>>, 400), FALSE)
    ELSE IF fault # 0 THEN Result(d, internal_error, TRUE)
    ELSE Result([d EXCEPT !.faculties[faculty_id].name = Given(data.name, @)],
                success_response(200), FALSE)

\* a Faculty.directions relationship without delete cascade
DirectionsKept(rows, table) == rows

\* the directions of the faculties that are left: cascade='all, delete-orphan'
\* of Faculty.directions
DirectionsOf(rows, table) ==
    [id \in {k \in DOMAIN rows : rows[k].faculty_id \in DOMAIN table} |-> rows[id]]

\* DELETE /faculties/<faculty_id>
delete_faculty(d, current_user, faculty_id, fault) ==
    IF faculty_id \notin DOMAIN d.faculties
        THEN Result(d, error_response("FACULTY_NOT_FOUND", <<>>, 404), FALSE)
    ELSE IF fault # 0 THEN Result(d, internal_error, TRUE)
    ELSE
        LET table == [id \in DOMAIN d.faculties \ {faculty_id} |-> d.faculties[id]]
        IN  Result([d EXCEPT !.faculties = table,
                             !.directions = DirectionsOf(d.directions, table)],
                   success_response(200), FALSE)

\* POST /directions
create_direction(d, current_user, data, fault) ==
    IF data.facultyId \notin DOMAIN d.faculties
        THEN Result(d, error_response("FACULTY_NOT_FOUND", <<>>, 404), FALSE)
    ELSE IF DirectionNamed(d, data.name, data.facultyId)
        THEN Result(d, error_response("DIRECTION_EXISTS", <<>>, 400), FALSE)
    ELSE IF fault # 0 THEN Result(d, internal_error, TRUE)
    ELSE Result([d EXCEPT !.directions =
                     (FreshId(DirectionIds, d.directions)
                        :> Direction(data.name, data.facultyId)) @@ @],
                success_response(201), FALSE)

\* PUT /directions/<direction_id>: the faculty is looked up when facultyId
\* differs from the stored one, the name when name differs from the stored
\* one; a reply before the commit leaves the row as it was
update_direction(d, current_user, direction_id, data, fault) ==
    IF direction_id \notin DOMAIN d.directions
        THEN Result(d, error_response("DIRECTION_NOT_FOUND", <<>>, 404), FALSE)
    ELSE
        LET direction == d.directions[direction_id]
            faculty_id == Given(data.facultyId, direction.faculty_id)
            \* the rows the name query reads: it flushes the new faculty_id first
            flushed == [d EXCEPT !.directions[direction_id].faculty_id = faculty_id]
        IN  IF data.facultyId # Absent /\ data.facultyId # direction.faculty_id
               /\ data.facultyId \notin DOMAIN d.faculties
                THEN Result(d, error_response("FACULTY_NOT_FOUND", <<>>, 404), FALSE)
            ELSE IF data.name # Absent /\ data.name # direction.name
                    /\ DirectionNamed(flushed, data.name, faculty_id)
                THEN Result(d, error_response("DIRECTION_EXISTS", <<>>, 400), FALSE)
            ELSE IF fault # 0 THEN Result(d, internal_error, TRUE)
            ELSE Result([d EXCEPT !.directions[direction_id] =
                             Direction(Given(data.name, direction.name), faculty_id)],
                        success_response(200), FALSE)

\* DELETE /directions/<direction_id>
delete_direction(d, current_user, direction_id, fault) ==
    IF direction_id \notin DOMAIN d.directions
        THEN Result(d, error_response("DIRECTION_NOT_FOUND", <<>>, 404), FALSE)
    ELSE IF fault # 0 THEN Result(d, internal_error, TRUE)
    ELSE Result([d EXCEPT !.directions =
                     [id \in DOMAIN @ \ {direction_id} |-> @[id]]],
                success_response(200), FALSE)

\* the ids and bodies of the dictionary requests
FacultyTargets == {"f1", "f2", "f9"}
DirectionTargets == {"d1", "d2", "d3"}
FacultyBodies == [name : {"IT", "Economics"}]
FacultyUpdateBodies == [name : {Absent, "Engineering", "Economics"}]
DirectionBodies == [name : {"SE", "Mechanics"}, facultyId : FacultyTargets]
DirectionUpdateBodies ==
    [name : {Absent, "SE", "Mechanics"}, facultyId : {Absent} \cup FacultyTargets]

CreateFaculty ==
    /\ Live
    /\ \E data \in FacultyBodies :
           Serve("create_faculty", AdminId, FreshId(FacultyIds, faculties),
                 role_required(db, AdminId, {"admin"},
                     create_faculty(db, AdminId, data, 0)))

UpdateFaculty ==
    /\ Live
    /\ \E faculty_id \in FacultyTargets, data \in FacultyUpdateBodies :
           Serve("update_faculty", AdminId, faculty_id,
                 role_required(db, AdminId, {"admin"},
                     update_faculty(db, AdminId, faculty_id, data, 0)))

DeleteFaculty ==
    /\ Live
    /\ \E faculty_id \in FacultyTargets :
           Serve("delete_faculty", AdminId, faculty_id,
                 role_required(db, AdminId, {"admin"},
                     delete_faculty(db, AdminId, faculty_id, 0)))

CreateDirection ==
    /\ Live
    /\ \E data \in DirectionBodies :
           Serve("create_direction", AdminId, FreshId(DirectionIds, directions),
                 role_required(db, AdminId, {"admin"},
                     create_direction(db, AdminId, data, 0)))

UpdateDirection ==
    /\ Live
    /\ \E direction_id \in DirectionTargets, data \in DirectionUpdateBodies :
           Serve("update_direction", AdminId, direction_id,
                 role_required(db, AdminId, {"admin"},
                     update_direction(db, AdminId, direction_id, data, 0)))

DeleteDirection ==
    /\ Live
    /\ \E direction_id \in DirectionTargets :
           Serve("delete_direction", AdminId, direction_id,
                 role_required(db, AdminId, {"admin"},
                     delete_direction(db, AdminId, direction_id, 0)))

\* two faculties of create_sample_data.py, each with one direction
InitDictionaries ==
    /\ users = ("a1" :> Staff("admin", "e1")) @@ ("t1" :> Staff("teacher", "e2"))
               @@ ("s1" :> SampleStudent)
    /\ activity_logs = <<>>
    /\ notifications = <<>>
    /\ teacher_students = <<>>
    /\ faculties = ("f1" :> Faculty("IT")) @@ ("f2" :> Faculty("Engineering"))
    /\ directions = ("d1" :> Direction("SE", "f1"))
                    @@ ("d2" :> Direction("Mechanics", "f2"))
    /\ drawn = 0
    /\ NoSessions
    /\ in_flight = <<>>
    /\ today = Calendar[1]
    /\ response = NoResponse
    /\ returned = NotReturned
    /\ writes = 0

NextDictionaries ==
    \/ CreateFaculty
    \/ UpdateFaculty
    \/ DeleteFaculty
    \/ CreateDirection
    \/ UpdateDirection
    \/ DeleteDirection

SpecDictionaries == InitDictionaries /\ [][NextDictionaries]_vars

\* C21: after any sequence of create, update and delete calls no two
\* Direction records of one faculty have the same name, and no two Faculty
\* records have the same name
C21_NamesAreUnique ==
    /\ \A a, b \in DOMAIN directions :
         a # b => ~(/\ directions[a].faculty_id = directions[b].faculty_id
                    /\ directions[a].name = directions[b].name)
    /\ \A a, b \in DOMAIN faculties : a # b => faculties[a].name # faculties[b].name

\* C22: every Direction references an existing Faculty; create_direction and
\* update_direction answer FACULTY_NOT_FOUND for a facultyId that matches no
\* faculty, and an update_direction that is rejected leaves the row unchanged
C22_DirectionsReferenceAFaculty ==
    /\ \A id \in DOMAIN directions : directions[id].faculty_id \in DOMAIN faculties
    /\ \A data \in DirectionBodies :
         data.facultyId \notin DOMAIN faculties
            => LET r == create_direction(db, AdminId, data, 0)
               IN  r.reply.code = "FACULTY_NOT_FOUND" /\ r.db = db
    /\ \A id \in DOMAIN directions, data \in DirectionUpdateBodies :
         LET r == update_direction(db, AdminId, id, data, 0)
         IN  /\ data.facultyId \notin {Absent} \cup DOMAIN faculties
                => r.reply.code = "FACULTY_NOT_FOUND"
             /\ ~r.reply.success => r.db = db

\* a faculty that had a direction was deleted, and an update of a direction
\* that names no faculty was rejected
C22_Witness ==
    /\ response.op = "update_direction"
    /\ response.code = "FACULTY_NOT_FOUND"
    /\ response.target \in DOMAIN directions
    /\ \E id \in {"f1", "f2"} : id \notin DOMAIN faculties

----------------------------------------------------------------------------
(* Sessions: login, logout and refresh *)

\* a JSON web token: create_access_token / create_refresh_token(identity)
Jwt(jti, type, identity) == [jti |-> jti, type |-> type, identity |-> identity]

\* what a session handler returns: the tables, the reply, the tokens it
\* issued and the jti values it added to blacklisted_tokens
SessionResult(d, reply, issued, revoked) ==
    [db |-> d, reply |-> reply, issued |-> issued, revoked |-> revoked]

\* the tokens get_jwt() finds in the request context when the functions of
\* before_app_request run: verify_jwt_in_request, which puts the decoded
\* token there, runs later, inside the jwt_required of the view
DecodedBeforeView == {}

\* check_if_token_revoked answers TOKEN_REVOKED; get_jwt() raises without a
\* decoded token, and the except clause passes
check_if_token_revoked(decoded, blacklist) ==
    \E token \in decoded : token.jti \in blacklist

\* the reply to a request: the before_app_request hook, then the view
Requested(d, inner) ==
    IF check_if_token_revoked(DecodedBeforeView, blacklisted_tokens)
        THEN SessionResult(d, error_response("TOKEN_REVOKED", <<>>, 401), {}, {})
    ELSE inner

\* POST /auth/login with an email as identifier
login(d, issued_so_far, data) ==
    LET found == {id \in DOMAIN d.users : d.users[id].email = data.identifier}
    IN  IF found = {} \/ \A id \in found : d.users[id].password_hash # data.password
            THEN SessionResult(d, error_response("INVALID_CREDENTIALS", <<>>, 401),
                               {}, {})
        ELSE LET id == CHOOSE id \in found : TRUE
                 n == Cardinality(issued_so_far)
             IN  IF d.users[id].is_blocked
                     THEN SessionResult(d, error_response("USER_BLOCKED", <<>>, 403),
                                        {}, {})
                 ELSE SessionResult(
                          [d EXCEPT !.activity_logs = Append(@,
                               ActivityLog(id, "USER_LOGIN", None))],
                          success_response(200),
                          {Jwt(n + 1, "access", id), Jwt(n + 2, "refresh", id)}, {})

\* POST /auth/logout with the access token in the header and refreshToken in
\* the body: the jti of get_jwt(), the access token, goes to the blacklist
logout(d, token, data) ==
    SessionResult(
        [d EXCEPT !.activity_logs = Append(@,
             ActivityLog(token.identity, "USER_LOGOUT", None))],
        success_response(200), {}, {token.jti})

\* POST /auth/refresh with a refresh token in the header
refresh(d, issued_so_far, token) ==
    IF token.identity \notin DOMAIN d.users \/ d.users[token.identity].is_blocked
        THEN SessionResult(d, error_response("USER_NOT_FOUND", <<>>, 401), {}, {})
    ELSE SessionResult(d, success_response(200),
             {Jwt(Cardinality(issued_so_far) + 1, "access", token.identity)}, {})

\* GET /profile with an access token in the header
get_profile(d, token) ==
    IF token.identity \notin DOMAIN d.users
        THEN SessionResult(d, error_response("USER_NOT_FOUND", <<>>, 404), {}, {})
    ELSE SessionResult(d, success_response(200), {}, {})

\* the tokens of a type that have been issued: jwt_required lets no other
\* token through to the view
Issued(type) == {token \in jwts : token.type = type}

\* the tokens that are issued in a behaviour
MaxJwts == 6

\* bodies of POST /auth/login
LoginBodies == [identifier : {"e1", "e3"}, password : {"pw0", "pw9"}]

\* one request is served: the tables, the tokens and the reply are those of r;
\* token is the one in the header, body_token the refreshToken of the body
Session(op, token, body_token, r) ==
    LET changed == r.db # db \/ r.issued # {} \/ ~(r.revoked \subseteq blacklisted_tokens)
    IN  /\ changed => writes < MaxWrites
        /\ Cardinality(jwts \cup r.issued) <= MaxJwts
        /\ users' = r.db.users
        /\ activity_logs' = r.db.activity_logs
        /\ jwts' = jwts \cup r.issued
        /\ blacklisted_tokens' = blacklisted_tokens \cup r.revoked
        /\ response' = [op |-> op, caller |-> None, target |-> token,
                        success |-> r.reply.success,
                        code |-> r.reply.code, details |-> body_token,
                        status |-> r.reply.status, changed |-> changed]
        /\ writes' = IF changed THEN writes + 1 ELSE writes
        /\ UNCHANGED <<notifications, teacher_students, dictionaries, drawn, utcnow,
                       in_flight, today, returned>>

Login ==
    /\ Live
    /\ \E data \in LoginBodies :
           Session("login", 0, 0, Requested(db, login(db, jwts, data)))

Logout ==
    /\ Live
    /\ \E token \in Issued("access"), body_token \in Issued("refresh") :
           Session("logout", token.jti, body_token.jti,
                   Requested(db, logout(db, token, [refreshToken |-> body_token])))

Refresh ==
    /\ Live
    /\ \E token \in Issued("refresh") :
           Session("refresh", token.jti, 0, Requested(db, refresh(db, jwts, token)))

GetProfile ==
    /\ Live
    /\ \E token \in Issued("access") :
           Session("get_profile", token.jti, 0, Requested(db, get_profile(db, token)))

\* the student and the admin have logged in
InitSessions ==
    /\ users = ("a1" :> Staff("admin", "e1")) @@ ("t1" :> Staff("teacher", "e2"))
               @@ ("s1" :> SampleStudent)
    /\ activity_logs = <<ActivityLog("s1", "USER_LOGIN", None),
                         ActivityLog("a1", "USER_LOGIN", None)>>
    /\ notifications = <<>>
    /\ teacher_students = <<>>
    /\ NoDictionaries
    /\ drawn = 0
    /\ blacklisted_tokens = {}
    /\ jwts = {Jwt(1, "access", "s1"), Jwt(2, "refresh", "s1"),
               Jwt(3, "access", "a1"), Jwt(4, "refresh", "a1")}
    /\ utcnow = 0
    /\ in_flight = <<>>
    /\ today = Calendar[1]
    /\ response = NoResponse
    /\ returned = NotReturned
    /\ writes = 0

NextSessions ==
    \/ Login
    \/ Logout
    \/ Refresh
    \/ GetProfile
    \/ BlockAdminStudent

SpecSessions == InitSessions /\ [][NextSessions]_vars

\* the issued token with the jti
TokenOf(jti) == CHOOSE token \in jwts : token.jti = jti

\* C23: after a successful logout that supplies a refresh token, every later
\* /refresh request with that refresh token is rejected and yields no new
\* access token, and every later request with the access token used for the
\* logout is rejected with TOKEN_REVOKED
C23_LogoutInvalidatesBothTokens ==
    response.op = "logout" /\ response.success
       => /\ LET r == Requested(db, refresh(db, jwts, TokenOf(response.details)))
             IN  ~r.reply.success /\ r.issued = {}
          /\ Requested(db, get_profile(db, TokenOf(response.target))).reply.code
                = "TOKEN_REVOKED"

----------------------------------------------------------------------------
(* Reports: the list of graduating students and the graduation statistics *)

\* current_academic_year of the two handlers at the date now
current_academic_year(now) == IF now[2] < 6 THEN now[1] - 1 ELSE now[1]

\* the rows a filter graduation_year <= year keeps: NULL compares as unknown
GraduationYearAtMost(d, year) ==
    {id \in DOMAIN d.users :
        d.users[id].graduation_year # NoYear /\ d.users[id].graduation_year <= year}

\* GET /graduating-students without faculty and degreeLevel, all pages
get_graduating_students(d, now, current_user) ==
    LET listed == {id \in GraduationYearAtMost(d, current_academic_year(now) + 1) :
                      /\ d.users[id].role = "student"
                      /\ d.users[id].student_status = "current"}
    IN  Result(d, [success_response(200) EXCEPT !.details = listed], FALSE)

\* GET /graduation-statistics without year: the reply's eligibleForGraduation
get_graduation_statistics(d, now, current_user) ==
    LET eligible == {id \in GraduationYearAtMost(d, current_academic_year(now) + 1) :
                        /\ d.users[id].role = "student"
                        /\ d.users[id].student_status = "current"}
    IN  Result(d, [success_response(200) EXCEPT !.details = Cardinality(eligible)],
               FALSE)

GetGraduatingStudents ==
    /\ Live
    /\ Serve("get_graduating_students", AdminId, None,
             role_required(db, AdminId, {"admin"},
                 get_graduating_students(db, today, AdminId)))

GetGraduationStatistics ==
    /\ Live
    /\ Serve("get_graduation_statistics", AdminId, None,
             role_required(db, AdminId, {"admin"},
                 get_graduation_statistics(db, today, AdminId)))

InitReports == InitGraduation

NextReports ==
    \/ GetGraduatingStudents
    \/ GetGraduationStatistics
    \/ UpdateGraduationInfo
    \/ ConfirmGraduation
    \/ Tick

SpecReports == InitReports /\ [][NextReports]_vars

\* the students for which is_eligible_for_graduation is true today
EligibleToday ==
    {id \in Students : is_eligible_for_graduation(users[id], today)}

\* C24: at every request date the students GET graduating-students returns
\* and eligibleForGraduation of GET graduation-statistics counts are exactly
\* the students for which is_eligible_for_graduation is true at that date
C24_ListedAreExactlyTheEligible ==
    /\ get_graduating_students(db, today, AdminId).reply.details = EligibleToday
    /\ get_graduation_statistics(db, today, AdminId).reply.details
          = Cardinality(EligibleToday)

----------------------------------------------------------------------------
(* Password reset: forgot_password and reset_password *)

\* timedelta(hours=24) of generate_password_reset_token
TokenLifetime == 24

\* the hours at which requests are made
Clock == <<0, 12, 24, 36>>

\* the identifiers that hold an '@'
Emails == {"e1", "e2", "e3", "e6", "e9"}

\* the passwords validate_password refuses
WeakPasswords == {"weak"}

\* the message of both success replies of forgot_password
ResetMailMessage == "If the account exists, a password reset email will be sent"

\* User.query.filter_by(email=identifier) or filter_by(phone=identifier)
UsersIdentifiedBy(d, identifier) ==
    IF identifier \in Emails
        THEN {id \in DOMAIN d.users : d.users[id].email = identifier}
    ELSE {id \in DOMAIN d.users : d.users[id].phone = identifier}

\* POST /auth/forgot-password; sent: send_email delivered the message
forgot_password(d, now, data, sent, fault) ==
    LET found == UsersIdentifiedBy(d, data.identifier)
        generic == [success_response(200) EXCEPT !.details = ResetMailMessage]
    IN  IF found = {} THEN Result(d, generic, FALSE)
        ELSE
            LET id == CHOOSE id \in found : TRUE
                token == d.drawn + 1
                \* the token was drawn; the row is stored by the commit only
                d0 == [d EXCEPT !.drawn = token]
                d1 == [d0 EXCEPT !.users[id].password_reset_token = token,
                                 !.users[id].password_reset_expires =
                                     now + TokenLifetime]
                d2 == [d1 EXCEPT !.activity_logs = Append(@,
                           ActivityLog(id, "PASSWORD_RESET_REQUESTED", None))]
            IN  IF d.users[id].is_blocked
                    THEN Result(d, error_response("USER_BLOCKED", <<>>, 403), FALSE)
                ELSE IF ~sent THEN Result(d0, generic, FALSE)
                ELSE IF fault = 1 THEN Result(d0, internal_error, TRUE)
                ELSE IF fault = 2 THEN Result(d1, internal_error, TRUE)
                ELSE Result(d2, generic, FALSE)

\* a reset_password that leaves the token in the row
reset_password_keeping_token(d, now, data, fault) ==
    LET found == {id \in DOMAIN d.users :
                     /\ d.users[id].password_reset_token = data.token
                     /\ d.users[id].password_reset_expires > now}
    IN  IF data.newPassword \in WeakPasswords
            THEN Result(d, error_response("INVALID_PASSWORD", <<>>, 400), FALSE)
        ELSE IF found = {}
            THEN Result(d, error_response("INVALID_TOKEN", <<>>, 400), FALSE)
        ELSE LET id == CHOOSE id \in found : TRUE
             IN  Result([d EXCEPT !.users[id].password_hash = data.newPassword,
                                  !.activity_logs = Append(@,
                                      ActivityLog(id, "PASSWORD_RESET_COMPLETED", None))],
                        success_response(200), FALSE)

\* POST /auth/reset-password
reset_password(d, now, data, fault) ==
    LET found == {id \in DOMAIN d.users :
                     /\ d.users[id].password_reset_token = data.token
                     /\ d.users[id].password_reset_expires > now}
    IN  IF data.newPassword \in WeakPasswords
            THEN Result(d, error_response("INVALID_PASSWORD", <<>>, 400), FALSE)
        ELSE IF found = {}
            THEN Result(d, error_response("INVALID_TOKEN", <<>>, 400), FALSE)
        ELSE
            LET id == CHOOSE id \in found : TRUE
                d1 == [d EXCEPT !.users[id].password_hash = data.newPassword,
                                !.users[id].password_reset_token = NoToken,
                                !.users[id].password_reset_expires = NoExpiry]
                d2 == [d1 EXCEPT !.activity_logs = Append(@,
                           ActivityLog(id, "PASSWORD_RESET_COMPLETED", None))]
            IN  IF fault = 1 THEN Result(d, internal_error, TRUE)
                ELSE IF fault = 2 THEN Result(d1, internal_error, TRUE)
                ELSE Result(d2, success_response(200), FALSE)

\* bodies of POST /auth/forgot-password
ForgotBodies == [identifier : {"e3", "p4", "e9"}]

\* bodies of POST /auth/reset-password: the tokens drawn so far and one more
ResetBodies == [token : 1..(drawn + 1), newPassword : {"pw1", "weak"}]

ForgotPassword ==
    /\ Live
    /\ \E data \in ForgotBodies, sent \in BOOLEAN :
           Serve("forgot_password", None, data.identifier,
                 forgot_password(db, utcnow, data, sent, 0))

ResetPassword ==
    /\ Live
    /\ \E data \in ResetBodies, fault \in Faults :
           Serve("reset_password", None, data.token,
                 reset_password(db, utcnow, data, fault))

\* time passes: the next request is made at the next hour of the clock
TickHour ==
    /\ Live
    /\ \E i \in 1..(Len(Clock) - 1) : utcnow = Clock[i] /\ utcnow' = Clock[i + 1]
    /\ UNCHANGED <<users, activity_logs, notifications, teacher_students,
                   dictionaries, drawn, blacklisted_tokens, jwts, in_flight, today,
                   response, returned, writes>>

InitPasswords == InitAccounts

NextPasswords ==
    \/ ForgotPassword
    \/ ResetPassword
    \/ BlockAdminStudent
    \/ TickHour

SpecPasswords == InitPasswords /\ [][NextPasswords]_vars

\* the tables without the users the identifier finds
WithoutIdentified(identifier) ==
    [db EXCEPT !.users =
        [id \in DOMAIN users \ UsersIdentifiedBy(db, identifier) |-> users[id]]]

\* C25: forgot_password does not reveal whether an account exists: with and
\* without a user of the identifier, in any account state, blocked included,
\* the HTTP status and the body of the reply are the same
C25_ForgotPasswordHidesExistence ==
    \A data \in ForgotBodies, sent \in BOOLEAN :
        forgot_password(db, utcnow, data, sent, 0).reply
           = forgot_password(WithoutIdentified(data.identifier), utcnow, data, sent,
                             0).reply

\* the users whose row holds a reset token
Resetting == {id \in DOMAIN users : users[id].password_reset_token # NoToken}

\* a body that resets the password of the user with the token of their row
ResetOf(id) == [token |-> users[id].password_reset_token, newPassword |-> "pw1"]

\* a reset_password that is accepted changes the password of the user whose
\* row holds the token and whose expiry is in the future, and the token is
\* rejected with INVALID_TOKEN from then on; one that is rejected writes nothing
TokenResetsOnceBeforeExpiry ==
    \A data \in ResetBodies :
        LET r == reset_password(db, utcnow, data, 0)
        IN  /\ r.reply.success
               => /\ \E id \in Resetting :
                       /\ users[id].password_reset_token = data.token
                       /\ utcnow < users[id].password_reset_expires
                       /\ r.db.users[id].password_hash = data.newPassword
                       /\ \A other \in DOMAIN users \ {id} :
                             r.db.users[other] = users[other]
                  /\ \A hour \in {utcnow} \cup {Clock[i] : i \in 1..Len(Clock)} :
                        hour >= utcnow
                           => reset_password(r.db, hour, data, 0).reply.code
                                 = "INVALID_TOKEN"
            /\ ~r.reply.success
               => r.reply.code \in {"INVALID_TOKEN", "INVALID_PASSWORD"} /\ r.db = db

\* a token whose expiry is not in the future is rejected
ExpiredTokenIsRejected ==
    \A id \in Resetting :
        users[id].password_reset_expires <= utcnow
           => reset_password(db, utcnow, ResetOf(id), 0).reply.code = "INVALID_TOKEN"

\* the earlier token of the user is rejected after the forgot_password call
Superseded(id, sent) ==
    LET r == forgot_password(db, utcnow, [identifier |-> users[id].email], sent, 0)
    IN  reset_password(r.db, utcnow, ResetOf(id), 0).reply.code = "INVALID_TOKEN"

----------------------------------------------------------------------------
(* The write operations of the administrator, called by every kind of user *)

\* PATCH /teachers/<teacher_id>/verify
verify_admin_teacher(d, current_user, teacher_id, fault) ==
    IF ~TeacherFound(d, teacher_id)
        THEN Result(d, error_response("TEACHER_NOT_FOUND", <<>>, 404), FALSE)
    ELSE IF d.users[teacher_id].is_verified
        THEN Result(d, error_response("ALREADY_VERIFIED", <<>>, 400), FALSE)
    ELSE
        LET d1 == [d EXCEPT !.users[teacher_id].is_verified = TRUE]
            d2 == [d1 EXCEPT
                     !.notifications = Append(@,
                         Notification(teacher_id, "account verified", "success")),
                     !.activity_logs = Append(@,
                         ActivityLog(current_user, "TEACHER_VERIFIED", teacher_id))]
        IN  IF fault = 1 THEN Result(d, internal_error, TRUE)
            ELSE IF fault = 2 THEN Result(d1, internal_error, TRUE)
            ELSE Result(d2, success_response(200), FALSE)

\* PATCH /teachers/<teacher_id>/block
block_admin_teacher(d, current_user, teacher_id, blocked, fault) ==
    IF ~TeacherFound(d, teacher_id)
        THEN Result(d, error_response("TEACHER_NOT_FOUND", <<>>, 404), FALSE)
    ELSE
        LET d1 == [d EXCEPT !.users[teacher_id].is_blocked = blocked]
            d2 == [d1 EXCEPT
                     !.notifications = Append(@,
                         IF blocked
                         THEN Notification(teacher_id, "account blocked", "error")
                         ELSE Notification(teacher_id, "account unblocked", "success")),
                     !.activity_logs = Append(@,
                         ActivityLog(current_user,
                             IF blocked THEN "TEACHER_BLOCKED" ELSE "TEACHER_UNBLOCKED",
                             teacher_id))]
        IN  IF fault = 1 THEN Result(d, internal_error, TRUE)
            ELSE IF fault = 2 THEN Result(d1, internal_error, TRUE)
            ELSE Result(d2, success_response(200), FALSE)

\* the holders of a token: the administrator, a blocked administrator, a
\* teacher, a student and the id of a row that was deleted
Callers == {AdminId, "a2", "t1", "s1", "a9"}

\* @jwt_required() @role_required('admin') def op(current_user, ...)
AdminOnly(op, current_user, target, inner) ==
    Serve(op, current_user, target, role_required(db, current_user, {"admin"}, inner))

ConfirmGraduationAs ==
    /\ Live
    /\ \E current_user \in Callers :
       \E student_id \in Inputs({"s1", "s2"}, current_user, {"admin"}) :
           AdminOnly("confirm_graduation", current_user, student_id,
                     confirm_graduation(db, today, current_user, student_id, 0))

RevertGraduationAs ==
    /\ Live
    /\ \E current_user \in Callers :
       \E student_id \in Inputs({"s2", "s1"}, current_user, {"admin"}) :
           AdminOnly("revert_graduation", current_user, student_id,
                     revert_graduation(db, current_user, student_id, 0))

UpdateGraduationInfoAs ==
    /\ Live
    /\ \E current_user \in Callers :
       \E student_id \in Inputs({"s1", "s2"}, current_user, {"admin"}),
          data \in Inputs({GraduationInfo(2022, 2026, "bachelor", Absent, Absent, Absent)},
                         current_user, {"admin"}) :
           AdminOnly("update_graduation_info", current_user, student_id,
                     validate_json_data(db, GraduationInfoMissing(data),
                         update_graduation_info(db, current_user, student_id, data, 0)))

CreateAdminStudentAs ==
    /\ Live
    /\ \E current_user \in Callers :
       \E data \in Inputs({NewStudent("e4", "n2", "bachelor", Absent, 2021, 2025)},
                      current_user, {"admin"}) :
           AdminOnly("create_admin_student", current_user, NewId(db),
                     create_admin_student(db, current_user, data, 0))

UpdateAdminStudentAs ==
    /\ Live
    /\ \E current_user \in Callers :
       \E student_id \in Inputs({"s1", "s2"}, current_user, {"admin"}),
          data \in Inputs({[EmptyUpdate EXCEPT !.faculty = "F2"]}, current_user, {"admin"}) :
           AdminOnly("update_admin_student", current_user, student_id,
                     update_admin_student(db, current_user, student_id, data, 0))

DeleteAdminStudentAs ==
    /\ Live
    /\ \E current_user \in Callers :
       \E student_id \in Inputs({"s1", "s2"}, current_user, {"admin"}) :
           AdminOnly("delete_admin_student", current_user, student_id,
                     delete_admin_student(db, current_user, student_id, 0))

VerifyAdminStudentAs ==
    /\ Live
    /\ \E current_user \in Callers :
       \E student_id \in Inputs({"s1", "s2"}, current_user, {"admin"}) :
           AdminOnly("verify_admin_student", current_user, student_id,
                     verify_admin_student(db, current_user, student_id, 0))

BlockAdminStudentAs ==
    /\ Live
    /\ \E current_user \in Callers :
       \E student_id \in Inputs({"s1", "s2"}, current_user, {"admin"}),
          blocked \in Inputs(BOOLEAN, current_user, {"admin"}) :
           AdminOnly("block_admin_student", current_user, student_id,
                     block_admin_student(db, current_user, student_id, blocked, 0))

CreateAdminTeacherAs ==
    /\ Live
    /\ \E current_user \in Callers :
       \E data \in Inputs({[email |-> "e8", phone |-> Absent, faculty |-> "F1",
                        direction |-> "D1"]}, current_user, {"admin"}) :
           AdminOnly("create_admin_teacher", current_user, NewId(db),
                     create_admin_teacher(db, current_user, data, 0))

UpdateAdminTeacherAs ==
    /\ Live
    /\ \E current_user \in Callers :
       \E data \in Inputs({[email |-> Absent, phone |-> "p6", faculty |-> Absent,
                        direction |-> Absent]}, current_user, {"admin"}) :
           AdminOnly("update_admin_teacher", current_user, "t1",
                     update_admin_teacher(db, current_user, "t1", data, 0))

DeleteAdminTeacherAs ==
    /\ Live
    /\ \E current_user \in Callers :
           AdminOnly("delete_admin_teacher", current_user, "t1",
                     delete_admin_teacher(db, current_user, "t1", 0))

VerifyAdminTeacherAs ==
    /\ Live
    /\ \E current_user \in Callers :
           AdminOnly("verify_admin_teacher", current_user, "t1",
                     verify_admin_teacher(db, current_user, "t1", 0))

BlockAdminTeacherAs ==
    /\ Live
    /\ \E current_user \in Callers :
       \E blocked \in Inputs(BOOLEAN, current_user, {"admin"}) :
           AdminOnly("block_admin_teacher", current_user, "t1",
                     block_admin_teacher(db, current_user, "t1", blocked, 0))

AssignStudentsToTeacherAs ==
    /\ Live
    /\ \E current_user \in Callers :
       \E student_ids \in Inputs({<<"s2">>}, current_user, {"admin"}) :
           AdminOnly("assign_students_to_teacher", current_user, "t1",
                     assign_students_to_teacher(db, current_user, "t1", student_ids, 0))

UnassignStudentFromTeacherAs ==
    /\ Live
    /\ \E current_user \in Callers :
       \E student_id \in Inputs({"s1", "s2"}, current_user, {"admin"}) :
           AdminOnly("unassign_student_from_teacher", current_user, "t1",
                     unassign_student_from_teacher(db, current_user, "t1", student_id,
                                                   0))

CreateFacultyAs ==
    /\ Live
    /\ \E current_user \in Callers :
       \E data \in Inputs({[name |-> "Economics"]}, current_user, {"admin"}) :
           AdminOnly("create_faculty", current_user, FreshId(FacultyIds, faculties),
                     create_faculty(db, current_user, data, 0))

UpdateFacultyAs ==
    /\ Live
    /\ \E current_user \in Callers :
       \E data \in Inputs({[name |-> "Economics"]}, current_user, {"admin"}) :
           AdminOnly("update_faculty", current_user, "f1",
                     update_faculty(db, current_user, "f1", data, 0))

DeleteFacultyAs ==
    /\ Live
    /\ \E current_user \in Callers :
           AdminOnly("delete_faculty", current_user, "f1",
                     delete_faculty(db, current_user, "f1", 0))

CreateDirectionAs ==
    /\ Live
    /\ \E current_user \in Callers :
       \E data \in Inputs({[name |-> "Mechanics", facultyId |-> "f2"]}, current_user,
                      {"admin"}) :
           AdminOnly("create_direction", current_user,
                     FreshId(DirectionIds, directions),
                     create_direction(db, current_user, data, 0))

UpdateDirectionAs ==
    /\ Live
    /\ \E current_user \in Callers :
       \E data \in Inputs({[name |-> "Mechanics", facultyId |-> "f2"]}, current_user,
                      {"admin"}) :
           AdminOnly("update_direction", current_user, "d1",
                     update_direction(db, current_user, "d1", data, 0))

DeleteDirectionAs ==
    /\ Live
    /\ \E current_user \in Callers :
           AdminOnly("delete_direction", current_user, "d1",
                     delete_direction(db, current_user, "d1", 0))

InitPermissions ==
    /\ users = ("a1" :> Staff("admin", "e1"))
               @@ ("a2" :> [Staff("admin", "e5") EXCEPT !.is_blocked = TRUE])
               @@ ("t1" :> Staff("teacher", "e2"))
               @@ ("s1" :> SampleStudent) @@ ("s2" :> SampleGraduate)
    /\ activity_logs = <<>>
    /\ notifications = <<>>
    /\ teacher_students = <<TeacherStudent("t1", "s1", "a1")>>
    /\ in_flight = <<>>
    /\ faculties = ("f1" :> Faculty("IT")) @@ ("f2" :> Faculty("Engineering"))
    /\ directions = ("d1" :> Direction("SE", "f1"))
    /\ NoSessions
    /\ today = Calendar[1]
    /\ response = NoResponse
    /\ returned = NotReturned
    /\ writes = 0

NextPermissions ==
    \/ ConfirmGraduationAs
    \/ RevertGraduationAs
    \/ UpdateGraduationInfoAs
    \/ CreateAdminStudentAs
    \/ UpdateAdminStudentAs
    \/ DeleteAdminStudentAs
    \/ VerifyAdminStudentAs
    \/ BlockAdminStudentAs
    \/ CreateAdminTeacherAs
    \/ UpdateAdminTeacherAs
    \/ DeleteAdminTeacherAs
    \/ VerifyAdminTeacherAs
    \/ BlockAdminTeacherAs
    \/ AssignStudentsToTeacherAs
    \/ UnassignStudentFromTeacherAs
    \/ CreateFacultyAs
    \/ UpdateFacultyAs
    \/ DeleteFacultyAs
    \/ CreateDirectionAs
    \/ UpdateDirectionAs
    \/ DeleteDirectionAs

SpecPermissions == InitPermissions /\ [][NextPermissions]_vars

\* the stored data
stored == <<users, activity_logs, notifications, teacher_students, faculties,
            directions>>

\* the user is a teacher, a student or blocked
Unprivileged(id) ==
    id \in DOMAIN users /\ (users[id].role \in {"teacher", "student"}
                             \/ users[id].is_blocked)

\* C26: a graduation, student or teacher management, assignment, faculty or
\* direction write operation changes the stored data only when its caller
\* exists, has the role admin and is not blocked; called by a teacher, a
\* student or a blocked administrator it answers INSUFFICIENT_PERMISSIONS or
\* USER_BLOCKED with HTTP 403 and the stored data are as before
C26_OnlyAnAdminWrites ==
    [][/\ stored' # stored
          => /\ response'.caller \in DOMAIN users
             /\ users[response'.caller].role = "admin"
             /\ ~users[response'.caller].is_blocked
       /\ Unprivileged(response'.caller)
          => /\ response'.code \in {"INSUFFICIENT_PERMISSIONS", "USER_BLOCKED"}
             /\ response'.status = 403
             /\ stored' = stored]_vars

\* after a write of the administrator, the teacher called a write operation
\* and was refused
C26_Witness ==
    /\ writes > 0
    /\ response.caller = "t1"
    /\ response.code = "INSUFFICIENT_PERMISSIONS"
    /\ response.status = 403

----------------------------------------------------------------------------
(* Two workers serve assign_students_to_teacher at once.  Each request has  *)
(* its own session: its queries read the committed rows and the rows it     *)
(* has added itself, and its rows reach the table at its commit             *)

\* the bodies and <teacher_id>s of the racing requests
RaceBatches == {<<"s1">>, <<"s2", "s1">>, <<"x1">>, <<>>}
RaceTeachers == {"t1", "s1"}

\* a request of the administrator that no statement of the handler has served
AssignRequest(teacher_id, student_ids) ==
    [teacher_id |-> teacher_id, student_ids |-> student_ids, pc |-> "teacher",
     added |-> <<>>, assigned |-> 0, skipped |-> 0, errors |-> <<>>,
     reply |-> NoResponse.code, status |-> 0]

\* the request that is i-th in flight returns
AssignAnswer(i, reply) ==
    in_flight' = [in_flight EXCEPT ![i] = [@ EXCEPT
                     !.pc = "done", !.reply = reply.code, !.status = reply.status]]

\* a worker takes a request
AssignStart ==
    /\ Len(in_flight) < MaxRequests
    /\ \E teacher_id \in RaceTeachers, student_ids \in RaceBatches :
           in_flight' = Append(in_flight, AssignRequest(teacher_id, student_ids))
    /\ UNCHANGED <<users, activity_logs, notifications, teacher_students, today,
                   response, returned, writes, dictionaries, drawn, sessions>>

\* the teacher query and the test of studentIds
AssignTeacher ==
    /\ \E i \in 1..Len(in_flight) :
         LET request == in_flight[i]
         IN  /\ request.pc = "teacher"
             /\ IF ~TeacherFound(db, request.teacher_id)
                    THEN AssignAnswer(i, error_response("TEACHER_NOT_FOUND", <<>>, 404))
                ELSE IF request.student_ids = <<>>
                    THEN AssignAnswer(i, error_response("INVALID_STUDENT_IDS", <<>>,
                                                        400))
                ELSE in_flight' = [in_flight EXCEPT ![i].pc = "loop"]
    /\ UNCHANGED <<users, activity_logs, notifications, teacher_students, today,
                   response, returned, writes, dictionaries, drawn, sessions>>

\* one pass of the loop: the student query, the existence query and
\* db.session.add; after the last pass `if assigned_count > 0`
AssignCheck ==
    /\ \E i \in 1..Len(in_flight) :
         LET request == in_flight[i]
             acc == AssignOne(db, [rows |-> teacher_students \o request.added,
                                   assigned |-> request.assigned,
                                   skipped |-> request.skipped,
                                   errors |-> request.errors],
                              AdminId, request.teacher_id, Head(request.student_ids))
             rest == Tail(request.student_ids)
         IN  /\ request.pc = "loop"
             /\ in_flight' = [in_flight EXCEPT ![i] = [@ EXCEPT
                    !.student_ids = rest,
                    !.added = SubSeq(acc.rows, Len(teacher_students) + 1,
                                     Len(acc.rows)),
                    !.assigned = acc.assigned, !.skipped = acc.skipped,
                    !.errors = acc.errors,
                    !.pc = IF rest # <<>> THEN "loop"
                           ELSE IF acc.assigned > 0 THEN "commit" ELSE "done",
                    !.reply = IF rest = <<>> /\ acc.assigned = 0
                              THEN success_response(200).code ELSE @,
                    !.status = IF rest = <<>> /\ acc.assigned = 0 THEN 200 ELSE @]]
    /\ UNCHANGED <<users, activity_logs, notifications, teacher_students, today,
                   response, returned, writes, dictionaries, drawn, sessions>>

\* db.session.commit() of the added rows: the table has no constraint on
\* the pair that could refuse them
AssignCommit ==
    /\ \E i \in 1..Len(in_flight) :
         LET request == in_flight[i]
         IN  /\ request.pc = "commit"
             /\ teacher_students' = teacher_students \o request.added
             /\ in_flight' = [in_flight EXCEPT ![i].pc = "log"]
    /\ UNCHANGED <<users, activity_logs, notifications, today,
                   response, returned, writes, dictionaries, drawn, sessions>>

\* the STUDENTS_ASSIGNED_TO_TEACHER entry is committed and the request returns
AssignLog ==
    /\ \E i \in 1..Len(in_flight) :
         LET request == in_flight[i]
         IN  /\ request.pc = "log"
             /\ activity_logs' = Append(activity_logs,
                    ActivityLog(AdminId, "STUDENTS_ASSIGNED_TO_TEACHER",
                                request.teacher_id))
             /\ AssignAnswer(i, success_response(200))
    /\ UNCHANGED <<users, notifications, teacher_students, today,
                   response, returned, writes, dictionaries, drawn, sessions>>

InitAssignRace == InitAssign

NextAssignRace ==
    \/ AssignStart
    \/ AssignTeacher
    \/ AssignCheck
    \/ AssignCommit
    \/ AssignLog

SpecAssignRace == InitAssignRace /\ [][NextAssignRace]_vars

\* C27: when requests that assign the same pair of a teacher and a student
\* interleave so that each runs its existence check before the other
\* commits, at most one TeacherStudent row of the pair is stored once they
\* have returned
C27_RaceStoresOneRowForThePair ==
    (\A i \in 1..Len(in_flight) : in_flight[i].pc = "done")
       => \A teacher_id \in RaceTeachers, student_id \in AssignIds :
             Cardinality(RowsOf(teacher_students, teacher_id, student_id)) <= 1

----------------------------------------------------------------------------
(* The graduation data of a graduate *)

\* admission_year, graduation_year, degree_level and student_type of the row
GraduationData(user) ==
    <<user.admission_year, user.graduation_year, user.degree_level, user.student_type>>

\* C28: while the student_status of a student is 'graduate' no request
\* (update_graduation_info, update_admin_student, update_profile) changes the
\* admission_year, graduation_year, degree_level or student_type of the
\* student; they change again only after revert_graduation
C28_GraduationDataOfAGraduateIsFrozen ==
    [][\A id \in DOMAIN users \cap DOMAIN users' :
          users[id].student_status = "graduate"
             => GraduationData(users'[id]) = GraduationData(users[id])]_vars

----------------------------------------------------------------------------
(* Assignments and the deletion of the users they name *)

InitAssignments ==
    /\ users = ("a1" :> Staff("admin", "e1")) @@ ("t1" :> Staff("teacher", "e2"))
               @@ ("t2" :> Staff("teacher", "e7"))
               @@ ("s1" :> SampleStudent) @@ ("s2" :> SampleGraduate)
    /\ activity_logs = <<>>
    /\ notifications = <<>>
    /\ teacher_students = <<TeacherStudent("t1", "s1", "a1")>>
    /\ in_flight = <<>>
    /\ NoDictionaries
    /\ NoSessions
    /\ today = Calendar[1]
    /\ response = NoResponse
    /\ returned = NotReturned
    /\ writes = 0

NextAssignments ==
    \/ AssignStudentsToTeacher
    \/ UnassignStudentFromTeacher
    \/ DeleteAdminStudent
    \/ DeleteAdminTeacher

SpecAssignments == InitAssignments /\ [][NextAssignments]_vars

\* C29: every TeacherStudent row names an existing user of role teacher as
\* teacher_id and an existing user of role student as student_id;
\* delete_admin_student and delete_admin_teacher leave no row that points to
\* the deleted user
C29_AssignmentsNameExistingUsers ==
    \A i \in 1..Len(teacher_students) :
        /\ TeacherFound(db, teacher_students[i].teacher_id)
        /\ StudentFound(db, teacher_students[i].student_id)

\* the deletion of a user who has an assignment was asked for, and was refused
C29_Witness ==
    /\ response.op \in {"delete_admin_student", "delete_admin_teacher"}
    /\ response.code = "INTERNAL_ERROR"
    /\ \E i \in 1..Len(teacher_students) :
          response.target \in {teacher_students[i].teacher_id,
                               teacher_students[i].student_id}

\* a student was deleted after the assignment was taken back
C29_DeletedWitness ==
    /\ response.op = "delete_admin_student"
    /\ response.success
    /\ response.target = "s1"
    /\ "s1" \notin DOMAIN users

====
